---- MODULE Spec2Model ----
(***************************************************************************)
(* pyglet.text.caret.Caret as a state machine: the caret's fields, the     *)
(* document text it edits, the layout's visible selection and the clock    *)
(* entry of its blink callback.  Every window event handler and every      *)
(* property setter is one action.  A handler is written as a function from *)
(* the state record before the call to the state record after it, composed *)
(* of the same private methods the Python code calls.                      *)
(*                                                                         *)
(* pyglet.font.GlyphString is the second object: a string of glyphs with   *)
(* its break search, its width queries and its drawing, every call of      *)
(* which is one action that records what the call came to.                 *)
(*                                                                         *)
(* Indices are Python's: positions count from 0, text[i] of the source is  *)
(* text[i+1] here.  Python's None is the empty tuple and a present value v *)
(* is <<v>>.  Time is counted in ticks of a quarter of a second.           *)
(* The caret's vertex list takes no part in what the caret does next and is *)
(* left out.                                                               *)
(***************************************************************************)
EXTENDS Integers, Sequences, FiniteSets, TLC

VARIABLES
    text,             \* layout.document.text
    style,            \* the document's style: for every character of the text
                      \* the set of the attributes it has been given
    position,         \* Caret._position
    mark,             \* Caret._mark
    ideal_x,          \* Caret._ideal_x
    ideal_line,       \* Caret._ideal_line
    next_attributes,  \* Caret._next_attributes (the set of its keys)
    selection,        \* the layout's visible selection, as set_selection left it
    view_x,           \* layout.view_x
    view_y,           \* layout.view_y
    visible,          \* Caret._visible
    active,           \* Caret._active
    blink_visible,    \* Caret._blink_visible
    alpha,            \* Caret._list.colors[3] and [7]
    scheduled,        \* how many times Caret._blink is on the clock
    period,           \* Caret.PERIOD, in ticks
    click_count,      \* Caret._click_count
    since_click,      \* time.time() - Caret._click_time in whole ticks, counted
                      \* no further than CLICK_INTERVAL
    glyphs,           \* the glyphs the GlyphString was constructed from
    origin,           \* the x it was constructed at
    glyph_string,     \* the GlyphString: text, states, cumulative_advance,
                      \* array, width
    call,             \* the last call of a method of the GlyphString, None
                      \* before the first
    result,           \* what that call came to
    block,            \* the Text
    mutations         \* how many assignments to its text, width, halign and
                      \* valign have been made

caret_vars ==
    <<text, style, position, mark, ideal_x, ideal_line, next_attributes, selection,
      view_x, view_y, visible, active, blink_visible, alpha, scheduled,
      period, click_count, since_click>>

glyph_vars == <<glyphs, origin, glyph_string, call, result>>

text_vars == <<block, mutations>>

vars == <<caret_vars, glyph_vars, text_vars>>

-----------------------------------------------------------------------------
(* Bounds of the model.                                                    *)

\* longest document when the caret is driven by every event there is
MaxDoc == 2
\* longest document when it is driven by the editing events alone
MaxLen == 3
\* how many notches of the wheel the viewport is scrolled off its origin
MaxScroll == 1
\* longest glyph string
MaxGlyphs == 3
\* longest text of a Text whose layout is examined
MaxText == 3
\* longest text assigned to a Text that is assigned to and read in turn
MaxAssigned == 1
\* how many assignments are made to it
MaxMutations == 2

(* Program constants.                                                      *)

\* PERIOD = 0.5 s
PERIOD == 2
\* the multi-click window, 0.25 s
CLICK_INTERVAL == 1
\* the alpha of a shown caret
OPAQUE == 255
\* the alpha of a hidden caret
TRANSPARENT == 0
\* SCROLL_INCREMENT = 12 * 96 / 72
SCROLL_INCREMENT == 16

-----------------------------------------------------------------------------
(* Values.                                                                 *)

None == <<>>
Some(v) == <<v>>
Val(o) == o[1]

Min(a, b) == IF a <= b THEN a ELSE b
Max(a, b) == IF a >= b THEN a ELSE b

\* The characters of a document: a word character, a blank, a newline.
Chars == {"a", " ", "\n"}
\* What a key press can deliver to on_text: the above and a carriage return.
Typed == {"a", " ", "\r"}

RECURSIVE StringsUpTo(_)
StringsUpTo(n) ==
    IF n = 0 THEN {<<>>}
    ELSE LET shorter == StringsUpTo(n - 1)
         IN shorter \cup {Append(s, ch) : s \in {t \in shorter : Len(t) = n - 1}, ch \in Chars}

\* Python's s[i:j] for 0 <= i, j (j is clamped to the length like a slice).
Slice(s, i, j) == SubSeq(s, i + 1, Min(j, Len(s)))

\* re's \w and \W on the model's characters.
IsWord(ch) == ch = "a"

MOTION_BACKSPACE == "MOTION_BACKSPACE"
MOTION_DELETE == "MOTION_DELETE"
MOTION_LEFT == "MOTION_LEFT"
MOTION_RIGHT == "MOTION_RIGHT"
MOTION_UP == "MOTION_UP"
MOTION_DOWN == "MOTION_DOWN"
MOTION_BEGINNING_OF_LINE == "MOTION_BEGINNING_OF_LINE"
MOTION_END_OF_LINE == "MOTION_END_OF_LINE"
MOTION_BEGINNING_OF_FILE == "MOTION_BEGINNING_OF_FILE"
MOTION_END_OF_FILE == "MOTION_END_OF_FILE"
MOTION_NEXT_WORD == "MOTION_NEXT_WORD"
MOTION_PREVIOUS_WORD == "MOTION_PREVIOUS_WORD"
\* a motion on_text_motion has no branch for
MOTION_NEXT_PAGE == "MOTION_NEXT_PAGE"

Motions ==
    {MOTION_BACKSPACE, MOTION_DELETE, MOTION_LEFT, MOTION_RIGHT, MOTION_UP,
     MOTION_DOWN, MOTION_BEGINNING_OF_LINE, MOTION_END_OF_LINE,
     MOTION_BEGINNING_OF_FILE, MOTION_END_OF_FILE, MOTION_NEXT_WORD,
     MOTION_PREVIOUS_WORD, MOTION_NEXT_PAGE}

-----------------------------------------------------------------------------
(* The document: text with insertion and deletion.                         *)

insert_text(s, index, t) == Slice(s, 0, index) \o t \o Slice(s, index, Len(s))

delete_text(s, start, end) == Slice(s, 0, start) \o Slice(s, end, Len(s))

\* The names a style dict can have as keys.
Attrs == {"bold", "italic"}

\* The style of the document after insert_text(index, <n characters>,
\* attributes): the new characters continue the style before them (at the
\* start of the document the style after them) and take the attributes given.
insert_style(st, index, n, attributes) ==
    LET around == IF Len(st) = 0 THEN {}
                  ELSE IF index = 0 THEN st[1]
                  ELSE st[index]
    IN Slice(st, 0, index) \o [i \in 1..n |-> around \cup attributes]
                          \o Slice(st, index, Len(st))

\* The style of the document after set_style(start, end, attributes).
set_style_range(st, start, end, attributes) ==
    [i \in 1..Len(st) |-> IF start < i /\ i <= end THEN st[i] \cup attributes ELSE st[i]]

\* The index after the last newline before p, or 0.
get_paragraph_start(s, p) ==
    LET nl == {i \in 1..Min(p, Len(s)) : s[i] = "\n"}
    IN IF nl = {} THEN 0 ELSE CHOOSE i \in nl : \A j \in nl : j <= i

\* The index after the first newline at or after p, or the length.
get_paragraph_end(s, p) ==
    LET nl == {i \in (p + 1)..Len(s) : s[i] = "\n"}
    IN IF nl = {} THEN Len(s) ELSE CHOOSE i \in nl : \A j \in nl : i <= j

-----------------------------------------------------------------------------
(* The layout: one line per newline-delimited segment of the document,     *)
(* every glyph one unit wide, x counted in glyphs and y in lines.          *)

\* The number of newlines before position p.
get_line_from_position(s, p) == Cardinality({i \in 1..Min(p, Len(s)) : s[i] = "\n"})

get_line_count(s) == get_line_from_position(s, Len(s)) + 1

\* The position of the first character of a line.
get_position_from_line(s, line) ==
    IF line = 0 THEN 0
    ELSE CHOOSE i \in 1..Len(s) : s[i] = "\n" /\ get_line_from_position(s, i) = line

\* The position after the last character of a line, its newline excluded.
line_end(s, line) ==
    IF line = get_line_count(s) - 1 THEN Len(s)
    ELSE get_position_from_line(s, line + 1) - 1

\* The position on the line closest to x.
get_position_on_line(s, line, x) ==
    LET start == get_position_from_line(s, line)
    IN start + Min(Max(x, 0), line_end(s, line) - start)

\* The x of a position, measured on the given line.
get_point_from_position(s, p, line) ==
    LET start == get_position_from_line(s, line)
    IN Min(Max(p - start, 0), line_end(s, line) - start)

\* The line under a point.
get_line_from_point(s, x, y) == Min(Max(y, 0), get_line_count(s) - 1)

\* set_selection(start, end)
set_selection(c, start, end) == [c EXCEPT !.selection = <<start, end>>]

\* The viewport shows the columns view_x .. view_x + layout_width and the
\* lines view_y .. view_y + layout_height.
layout_width == 16
layout_height == 16

\* The viewport coordinate closest to v from which v is shown.
scroll_to(v, at, extent) ==
    IF at < v THEN at
    ELSE IF at > v + extent THEN at - extent
    ELSE v

ensure_line_visible(c, line) ==
    [c EXCEPT !.view_y = scroll_to(@, line, layout_height)]

ensure_x_visible(c, x) ==
    [c EXCEPT !.view_x = scroll_to(@, x, layout_width)]

-----------------------------------------------------------------------------
(* The clock: the blink callback is on it `scheduled` times.               *)

unschedule(c) == [c EXCEPT !.scheduled = 0]

schedule_interval(c) == [c EXCEPT !.scheduled = @ + 1]

-----------------------------------------------------------------------------
(* Caret: private methods.  c is the state before the call, the value the  *)
(* state after it.                                                         *)

State ==
    [text |-> text, style |-> style, position |-> position, mark |-> mark, ideal_x |-> ideal_x,
     ideal_line |-> ideal_line, next_attributes |-> next_attributes,
     selection |-> selection, view_x |-> view_x, view_y |-> view_y,
     visible |-> visible, active |-> active,
     blink_visible |-> blink_visible, alpha |-> alpha, scheduled |-> scheduled,
     period |-> period, click_count |-> click_count, since_click |-> since_click]

\* _blink with the test of _active left out.
_blink_ignoring_active(c) ==
    LET bv == ~c.blink_visible
    IN [c EXCEPT !.blink_visible = bv,
                 !.alpha = IF c.visible /\ bv THEN OPAQUE ELSE TRANSPARENT]

\* _blink with the flip of _blink_visible left out.
_blink_keeping_phase(c) ==
    [c EXCEPT !.alpha = IF c.visible /\ c.active /\ c.blink_visible
                        THEN OPAQUE ELSE TRANSPARENT]

_blink(c) ==
    LET bv == ~c.blink_visible
    IN [c EXCEPT !.blink_visible = bv,
                 !.alpha = IF c.visible /\ c.active /\ bv THEN OPAQUE ELSE TRANSPARENT]

\* _set_visible with the call of clock.unschedule left out.
_set_visible_no_unschedule(c, v) ==
    LET c1 == [c EXCEPT !.visible = v]
        c2 == IF v /\ c1.active /\ c1.period # 0
              THEN [schedule_interval(c1) EXCEPT !.blink_visible = FALSE]
              ELSE c1
    IN _blink(c2)

\* _set_visible with the reset of _blink_visible left out.
_set_visible_no_phase_reset(c, v) ==
    LET c1 == unschedule([c EXCEPT !.visible = v])
        c2 == IF v /\ c1.active /\ c1.period # 0 THEN schedule_interval(c1) ELSE c1
    IN _blink(c2)

_set_visible(c, v) ==
    LET c1 == unschedule([c EXCEPT !.visible = v])
        c2 == IF v /\ c1.active /\ c1.period # 0
              THEN [schedule_interval(c1) EXCEPT !.blink_visible = FALSE]
              ELSE c1
    IN _blink(c2)

_nudge(c) == _set_visible(c, TRUE)

\* line is None or Some(l), as the keyword argument is.
_update(c, line, update_ideal_x) ==
    LET l == IF line = None THEN get_line_from_position(c.text, c.position) ELSE Val(line)
        x == get_point_from_position(c.text, c.position, l)
        c1 == [c EXCEPT !.ideal_line = line,
                        !.ideal_x = IF update_ideal_x THEN Some(x) ELSE @]
        c2 == IF c1.mark # None
              THEN set_selection(c1, Min(c1.position, Val(c1.mark)),
                                 Max(c1.position, Val(c1.mark)))
              ELSE c1
    IN ensure_x_visible(ensure_line_visible(c2, l), x)

_set_position(c, index) ==
    _update([c EXCEPT !.position = index, !.next_attributes = {}], None, TRUE)

\* _set_mark with the clearing of the layout's selection left out.
_set_mark_keep_selection(c, m) == _update([c EXCEPT !.mark = m], c.ideal_line, TRUE)

_set_mark(c, m) ==
    LET c1 == _update([c EXCEPT !.mark = m], c.ideal_line, TRUE)
    IN IF m = None THEN set_selection(c1, 0, 0) ELSE c1

_get_line(c) ==
    IF c.ideal_line # None THEN Val(c.ideal_line)
    ELSE get_line_from_position(c.text, c.position)

_set_line(c, line) ==
    LET c1 == IF c.ideal_x = None
              THEN [c EXCEPT !.ideal_x =
                       Some(get_point_from_position(c.text, c.position,
                                get_line_from_position(c.text, c.position)))]
              ELSE c
        c2 == [c1 EXCEPT !.position = get_position_on_line(c1.text, line, Val(c1.ideal_x))]
    IN _update(c2, Some(line), FALSE)

set_style(c, attributes) ==
    IF c.mark = None \/ c.mark = Some(c.position)
    THEN [c EXCEPT !.next_attributes = @ \cup attributes]
    ELSE [c EXCEPT !.style = set_style_range(@, Min(c.position, Val(c.mark)),
                                             Max(c.position, Val(c.mark)), attributes)]

_delete_selection(c) ==
    LET lo == Min(Val(c.mark), c.position)
        hi == Max(Val(c.mark), c.position)
        c1 == [c EXCEPT !.text = delete_text(c.text, lo, hi),
                        !.style = delete_text(c.style, lo, hi),
                        !.position = lo,
                        !.mark = None]
    IN set_selection(c1, 0, 0)

-----------------------------------------------------------------------------
(* Caret: public methods.                                                  *)

move_to_point(c, x, y) ==
    LET line == get_line_from_point(c.text, x, y)
        c1 == set_selection([c EXCEPT !.mark = None], 0, 0)
        c2 == [c1 EXCEPT !.position = get_position_on_line(c1.text, line, x)]
        c3 == _update(c2, Some(line), TRUE)
    IN [c3 EXCEPT !.next_attributes = {}]

select_to_point(c, x, y) ==
    LET line == get_line_from_point(c.text, x, y)
        c1 == [c EXCEPT !.position = get_position_on_line(c.text, line, x)]
        c2 == _update(c1, Some(line), TRUE)
    IN [c2 EXCEPT !.next_attributes = {}]

\* _next_word_re.search(s, pos): the first index >= pos of a word character
\* that follows a non-word character, None if there is none.
next_word_search(s, pos) ==
    LET hits == {j \in Max(pos, 1)..(Len(s) - 1) : IsWord(s[j + 1]) /\ ~IsWord(s[j])}
    IN IF hits = {} THEN None ELSE Some(CHOOSE j \in hits : \A k \in hits : j <= k)

\* _previous_word_re.search(s, 0, endpos): in s[:endpos], the first index of a
\* word character that follows a non-word character and from which only word
\* characters and then only non-word characters run to the end.
previous_word_search(s, endpos) ==
    LET t == Slice(s, 0, endpos)
        tail(j) == \E k \in (j + 1)..Len(t) :
                       /\ \A i \in (j + 1)..k : IsWord(t[i])
                       /\ \A i \in (k + 1)..Len(t) : ~IsWord(t[i])
        hits == {j \in 1..(Len(t) - 1) : ~IsWord(t[j]) /\ tail(j)}
    IN IF hits = {} THEN None ELSE Some(CHOOSE j \in hits : \A k \in hits : j <= k)

select_word(c, x, y) ==
    LET line == get_line_from_point(c.text, x, y)
        p == get_position_on_line(c.text, line, x)
        m1 == previous_word_search(c.text, p + 1)
        c1 == _set_mark(c, Some(IF m1 = None THEN 0 ELSE Val(m1)))
        m2 == next_word_search(c1.text, p)
        c2 == [c1 EXCEPT !.position = IF m2 = None THEN Len(c1.text) ELSE Val(m2)]
        c3 == _update(c2, Some(line), TRUE)
    IN [c3 EXCEPT !.next_attributes = {}]

select_paragraph(c, x, y) ==
    LET line == get_line_from_point(c.text, x, y)
        p == get_position_on_line(c.text, line, x)
        c1 == _set_mark(c, Some(get_paragraph_start(c.text, p)))
        c2 == [c1 EXCEPT !.position = get_paragraph_end(c1.text, p)]
        c3 == _update(c2, Some(line), TRUE)
    IN [c3 EXCEPT !.next_attributes = {}]

-----------------------------------------------------------------------------
(* Caret: event handlers.                                                  *)

\* text.replace('\r', '\n')
replace_cr(t) == [i \in 1..Len(t) |-> IF t[i] = "\r" THEN "\n" ELSE t[i]]

\* on_text typing into the document without deleting the selection first.
on_text_keep_selection(c, t) ==
    LET t1 == replace_cr(t)
        c2 == [c EXCEPT !.text = insert_text(c.text, c.position, t1),
                        !.style = insert_style(c.style, c.position, Len(t1),
                                               c.next_attributes)]
        c3 == [c2 EXCEPT !.position = @ + Len(t1)]
    IN _update(_nudge(c3), None, TRUE)

on_text(c, t) ==
    LET c1 == IF c.mark # None THEN _delete_selection(c) ELSE c
        t1 == replace_cr(t)
        c2 == [c1 EXCEPT !.text = insert_text(c1.text, c1.position, t1),
                         !.style = insert_style(c1.style, c1.position, Len(t1),
                                                c1.next_attributes)]
        c3 == [c2 EXCEPT !.position = @ + Len(t1)]
    IN _update(_nudge(c3), None, TRUE)

\* MOTION_BACKSPACE
motion_backspace(c) ==
    IF c.mark # None THEN _update(_delete_selection(c), None, TRUE)
    ELSE IF c.position > 0
         THEN _set_position([c EXCEPT !.text = delete_text(c.text, c.position - 1, c.position),
                                      !.style = delete_text(c.style, c.position - 1, c.position)],
                            c.position - 1)
         ELSE c

\* MOTION_DELETE deleting the character behind the caret.
motion_delete_behind(c) ==
    IF c.mark # None THEN _update(_delete_selection(c), None, TRUE)
    ELSE IF c.position < Len(c.text)
         THEN _update([c EXCEPT !.text = delete_text(c.text, c.position - 1, c.position),
                                !.style = delete_text(c.style, c.position - 1, c.position)],
                      None, TRUE)
         ELSE c

\* MOTION_DELETE
motion_delete(c) ==
    IF c.mark # None THEN _update(_delete_selection(c), None, TRUE)
    ELSE IF c.position < Len(c.text)
         THEN _update([c EXCEPT !.text = delete_text(c.text, c.position, c.position + 1),
                                !.style = delete_text(c.style, c.position, c.position + 1)],
                      None, TRUE)
         ELSE c

\* The first chain with the branch that drops the selection left out.
motion_edit_keep_mark(c, motion, select) ==
    IF motion = MOTION_BACKSPACE THEN motion_backspace(c)
    ELSE IF motion = MOTION_DELETE THEN motion_delete(c)
    ELSE c

\* The first if/elif chain of on_text_motion: delete, or drop the selection.
motion_edit(c, motion, select) ==
    IF motion = MOTION_BACKSPACE THEN motion_backspace(c)
    ELSE IF motion = MOTION_DELETE THEN motion_delete(c)
    ELSE IF c.mark # None /\ ~select
         THEN set_selection([c EXCEPT !.mark = None], 0, 0)
         ELSE c

\* MOTION_LEFT without max(0, ...).
motion_left_unclamped(c) == _set_position(c, c.position - 1)

motion_left(c) == _set_position(c, Max(0, c.position - 1))

\* MOTION_RIGHT without min(len(text), ...).
motion_right_unclamped(c) == _set_position(c, c.position + 1)

motion_right(c) == _set_position(c, Min(Len(c.text), c.position + 1))

motion_up(c) == _set_line(c, Max(0, _get_line(c) - 1))

motion_down(c) ==
    LET line == _get_line(c)
    IN IF line < get_line_count(c.text) - 1 THEN _set_line(c, line + 1) ELSE c

motion_beginning_of_line(c) == _set_position(c, get_position_from_line(c.text, _get_line(c)))

motion_end_of_line(c) ==
    LET line == _get_line(c)
    IN IF line < get_line_count(c.text) - 1
       THEN _update([c EXCEPT !.position = get_position_on_line(c.text, line + 1, 0) - 1],
                    Some(line), TRUE)
       ELSE _set_position(c, Len(c.text))

\* MOTION_NEXT_WORD searching from the position itself.
motion_next_word_from_position(c) ==
    LET m == next_word_search(c.text, c.position)
    IN _set_position(c, IF m = None THEN Len(c.text) ELSE Val(m))

motion_next_word(c) ==
    LET m == next_word_search(c.text, c.position + 1)
    IN _set_position(c, IF m = None THEN Len(c.text) ELSE Val(m))

motion_previous_word(c) ==
    LET m == previous_word_search(c.text, c.position)
    IN _set_position(c, IF m = None THEN 0 ELSE Val(m))

\* The second if/elif chain of on_text_motion: move the caret.
motion_move(c, motion) ==
    CASE motion = MOTION_LEFT -> motion_left(c)
      [] motion = MOTION_RIGHT -> motion_right(c)
      [] motion = MOTION_UP -> motion_up(c)
      [] motion = MOTION_DOWN -> motion_down(c)
      [] motion = MOTION_BEGINNING_OF_LINE -> motion_beginning_of_line(c)
      [] motion = MOTION_END_OF_LINE -> motion_end_of_line(c)
      [] motion = MOTION_BEGINNING_OF_FILE -> _set_position(c, 0)
      [] motion = MOTION_END_OF_FILE -> _set_position(c, Len(c.text))
      [] motion = MOTION_NEXT_WORD -> motion_next_word(c)
      [] motion = MOTION_PREVIOUS_WORD -> motion_previous_word(c)
      [] OTHER -> c

on_text_motion(c, motion, select) ==
    LET c1 == motion_move(motion_edit(c, motion, select), motion)
    IN _nudge([c1 EXCEPT !.next_attributes = {}])

\* on_text_motion_select setting the mark whether or not there is one.
on_text_motion_select_remark(c, motion) ==
    on_text_motion(_set_mark(c, Some(c.position)), motion, TRUE)

on_text_motion_select(c, motion) ==
    LET c1 == IF c.mark = None THEN _set_mark(c, Some(c.position)) ELSE c
    IN on_text_motion(c1, motion, TRUE)

\* The click count with <= for <.
count_click_inclusive(c) ==
    IF c.since_click <= CLICK_INTERVAL THEN c.click_count + 1 ELSE 1

\* The click count after a press.
count_click(c) ==
    IF c.since_click < CLICK_INTERVAL THEN c.click_count + 1 ELSE 1

\* What a press with the click count n does.
dispatch_click(c, n, x, y) ==
    IF n = 1 THEN move_to_point(c, x, y)
    ELSE IF n = 2 THEN select_word(c, x, y)
    ELSE IF n = 3 THEN [select_paragraph(c, x, y) EXCEPT !.click_count = 0]
    ELSE c

\* on_mouse_scroll with the two wheel axes taken for each other.
on_mouse_scroll_axes_swapped(c, scroll_x, scroll_y) ==
    [c EXCEPT !.view_x = @ - scroll_y * SCROLL_INCREMENT,
              !.view_y = @ + scroll_x * SCROLL_INCREMENT]

on_mouse_scroll(c, scroll_x, scroll_y) ==
    [c EXCEPT !.view_x = @ - scroll_x * SCROLL_INCREMENT,
              !.view_y = @ + scroll_y * SCROLL_INCREMENT]

on_mouse_press(c, x, y) ==
    LET c1 == [c EXCEPT !.click_count = count_click(c), !.since_click = 0]
    IN _nudge(dispatch_click(c1, c1.click_count, x, y))

\* on_mouse_drag anchoring the selection anew on every drag.
on_mouse_drag_reanchor(c, x, y) ==
    _nudge(select_to_point(_set_mark(c, Some(c.position)), x, y))

on_mouse_drag(c, x, y) ==
    LET c1 == IF c.mark = None THEN _set_mark(c, Some(c.position)) ELSE c
    IN _nudge(select_to_point(c1, x, y))

on_activate(c) == _set_visible([c EXCEPT !.active = TRUE], c.visible)

on_deactivate(c) == _set_visible([c EXCEPT !.active = FALSE], c.visible)

-----------------------------------------------------------------------------
(* GlyphString (pyglet/font/__init__.py): a string of glyphs of one font,   *)
(* a record of the fields the constructor sets.  A glyph is a record of its *)
(* advance, the texture that owns it, its vertices (left, bottom, right,    *)
(* top) and its four texture coordinates.  What a call comes to is          *)
(* Return(v) or the exception it raises.                                    *)

\* u'\u200b'
ZERO_WIDTH_SPACE == "zwsp"

\* texture = None
NoTexture == "None"

Return(v) == <<"return", v>>
IndexError == <<"IndexError">>
AttributeError == <<"AttributeError">>
Returns(outcome) == outcome[1] = "return"

\* Python's l[i]: counted from the end for a negative i, an IndexError
\* outside the list.
Item(l, i) ==
    IF 0 <= i /\ i < Len(l) THEN Return(l[i + 1])
    ELSE IF -Len(l) <= i /\ i < 0 THEN Return(l[Len(l) + i + 1])
    ELSE IndexError

\* The 20 floats of a glyph drawn at (x, y): four corners, each two texture
\* coordinates and three vertex coordinates.
quad(glyph, x, y) ==
    <<glyph.tex_coords[1][1], glyph.tex_coords[1][2],
      x + glyph.vertices[1], y + glyph.vertices[2], 0,
      glyph.tex_coords[2][1], glyph.tex_coords[2][2],
      x + glyph.vertices[3], y + glyph.vertices[2], 0,
      glyph.tex_coords[3][1], glyph.tex_coords[3][2],
      x + glyph.vertices[3], y + glyph.vertices[4], 0,
      glyph.tex_coords[4][1], glyph.tex_coords[4][2],
      x + glyph.vertices[1], y + glyph.vertices[4], 0>>

\* A glyph of the given advance and texture: a box as wide as the advance
\* and one unit high that takes up the whole of its texture.
Glyph(advance, owner) ==
    [advance |-> advance, owner |-> owner, vertices |-> <<0, 0, advance, 1>>,
     tex_coords |-> <<<<0, 0>>, <<1, 0>>, <<1, 1>>, <<0, 1>>>>]

\* The locals of GlyphString.__init__ before its loop.
init_locals(x) ==
    [lst |-> <<>>, texture |-> NoTexture, states |-> <<>>,
     cumulative_advance |-> <<>>, state_from |-> 0, state_length |-> 0, x |-> x]

\* The loop body that closes a texture run with the owner of the glyph that
\* ends it.
init_step_owner_late(l, i, glyph, y) ==
    LET l1 == IF glyph.owner # l.texture
              THEN [l EXCEPT !.states = IF l.state_length # 0
                                        THEN Append(@, <<l.state_from, l.state_length,
                                                         glyph.owner>>)
                                        ELSE @,
                             !.texture = glyph.owner,
                             !.state_from = i,
                             !.state_length = 0]
              ELSE l
    IN [l1 EXCEPT !.state_length = @ + 1,
                  !.lst = @ \o quad(glyph, l1.x, y),
                  !.x = @ + glyph.advance,
                  !.cumulative_advance = Append(@, l1.x + glyph.advance)]

\* The loop body that records the pen position before the glyph's advance.
init_step_advance_late(l, i, glyph, y) ==
    LET l1 == IF glyph.owner # l.texture
              THEN [l EXCEPT !.states = IF l.state_length # 0
                                        THEN Append(@, <<l.state_from, l.state_length,
                                                         l.texture>>)
                                        ELSE @,
                             !.texture = glyph.owner,
                             !.state_from = i,
                             !.state_length = 0]
              ELSE l
    IN [l1 EXCEPT !.state_length = @ + 1,
                  !.lst = @ \o quad(glyph, l1.x, y),
                  !.x = @ + glyph.advance,
                  !.cumulative_advance = Append(@, l1.x)]

\* The body of the loop of __init__ for glyph number i.
init_step(l, i, glyph, y) ==
    LET l1 == IF glyph.owner # l.texture
              THEN [l EXCEPT !.states = IF l.state_length # 0
                                        THEN Append(@, <<l.state_from, l.state_length,
                                                         l.texture>>)
                                        ELSE @,
                             !.texture = glyph.owner,
                             !.state_from = i,
                             !.state_length = 0]
              ELSE l
    IN [l1 EXCEPT !.state_length = @ + 1,
                  !.lst = @ \o quad(glyph, l1.x, y),
                  !.x = @ + glyph.advance,
                  !.cumulative_advance = Append(@, l1.x + glyph.advance)]

RECURSIVE init_loop(_, _, _, _)
\* for i, glyph in enumerate(glyphs), from glyph number i on.
init_loop(l, i, gl, y) ==
    IF i = Len(gl) THEN l
    ELSE init_loop(init_step(l, i, gl[i + 1], y), i + 1, gl, y)

\* GlyphString(text, glyphs, x, y)
GlyphString(t, gl, x, y) ==
    LET l == init_loop(init_locals(x), 0, gl, y)
    IN [text |-> t,
        states |-> Append(l.states, <<l.state_from, l.state_length, l.texture>>),
        cumulative_advance |-> l.cumulative_advance,
        array |-> l.lst,
        width |-> l.x]

\* The pass recording a break after a blank before it looks whether the
\* blank still fits.
break_scan_late_check(gs, from_index, width, i, to_index) ==
    LET k == from_index + i
        c == gs.text[k + 1]
        w == gs.cumulative_advance[k + 1]
        blank == c \in {" ", ZERO_WIDTH_SPACE}
    IN IF k >= Len(gs.text) \/ k >= Len(gs.cumulative_advance) THEN <<"return", to_index>>
       ELSE IF w > width THEN <<"return", IF blank THEN k + 1 ELSE to_index>>
       ELSE IF c = "\n" THEN <<"return", k + 1>>
       ELSE IF blank THEN <<"continue", k + 1>>
       ELSE <<"continue", to_index>>

\* The pass taking a newline for one more blank.
break_scan_soft_newline(gs, from_index, width, i, to_index) ==
    LET k == from_index + i
        c == gs.text[k + 1]
        w == gs.cumulative_advance[k + 1]
    IN IF k >= Len(gs.text) \/ k >= Len(gs.cumulative_advance) THEN <<"return", to_index>>
       ELSE IF w > width THEN <<"return", to_index>>
       ELSE IF c \in {" ", ZERO_WIDTH_SPACE, "\n"} THEN <<"continue", k + 1>>
       ELSE <<"continue", to_index>>

\* One pass of the loop of get_break_index, over the i-th pair of
\* zip(text[from_index:], cumulative_advance[from_index:]): the index it
\* returns, or the to_index the loop continues with.  With the pairs used up
\* the loop ends and to_index is returned.
break_scan(gs, from_index, width, i, to_index) ==
    LET k == from_index + i
        c == gs.text[k + 1]
        w == gs.cumulative_advance[k + 1]
    IN IF k >= Len(gs.text) \/ k >= Len(gs.cumulative_advance) THEN <<"return", to_index>>
       ELSE IF w > width THEN <<"return", to_index>>
       ELSE IF c = "\n" THEN <<"return", k + 1>>
       ELSE IF c \in {" ", ZERO_WIDTH_SPACE} THEN <<"continue", k + 1>>
       ELSE <<"continue", to_index>>

RECURSIVE break_loop(_, _, _, _, _)
\* The loop of get_break_index from the i-th pair on.
break_loop(gs, from_index, width, i, to_index) ==
    LET pass == break_scan(gs, from_index, width, i, to_index)
    IN IF pass[1] = "return" THEN pass[2]
       ELSE break_loop(gs, from_index, width, i + 1, pass[2])

\* get_break_index(from_index, width), for from_index >= 0
get_break_index(gs, from_index, width) ==
    IF from_index >= Len(gs.text) THEN Return(from_index)
    ELSE LET before == IF from_index # 0
                       THEN Item(gs.cumulative_advance, from_index - 1)
                       ELSE Return(0)
         IN IF Returns(before)
            THEN Return(break_loop(gs, from_index, width + before[2], 0, from_index))
            ELSE before

\* get_subwidth reading the table at to_index.
get_subwidth_off_by_one(gs, from_index, to_index) ==
    LET upto == Item(gs.cumulative_advance, to_index)
        before == Item(gs.cumulative_advance, from_index - 1)
    IN IF ~Returns(upto) THEN upto
       ELSE IF from_index = 0 THEN upto
       ELSE IF ~Returns(before) THEN before
       ELSE Return(upto[2] - before[2])

\* get_subwidth(from_index, to_index)
get_subwidth(gs, from_index, to_index) ==
    LET upto == Item(gs.cumulative_advance, to_index - 1)
        before == Item(gs.cumulative_advance, from_index - 1)
    IN IF ~Returns(upto) THEN upto
       ELSE IF from_index = 0 THEN upto
       ELSE IF ~Returns(before) THEN before
       ELSE Return(upto[2] - before[2])

RECURSIVE draw_loop(_, _, _, _)
\* The loop of draw over self.states from run number n on: the GL calls it
\* makes.
draw_loop(states, n, from_index, to_index) ==
    IF n > Len(states) THEN <<>>
    ELSE LET run == states[n]
             state_from == Max(run[1], from_index)
             state_length == Min(run[2], to_index - state_from)
         IN IF run[1] + run[2] < from_index
            THEN draw_loop(states, n + 1, from_index, to_index)
            ELSE IF state_length <= 0 THEN <<>>
            ELSE << <<"glBindTexture", run[3]>>,
                    <<"glDrawArrays", state_from * 4, state_length * 4>> >>
                 \o draw_loop(states, n + 1, from_index, to_index)

\* draw(from_index, to_index), for from_index >= 0 and to_index None or
\* Some(index): the GL calls it makes.
draw(gs, from_index, to_index) ==
    IF from_index >= Len(gs.text) \/ Some(from_index) = to_index \/ Len(gs.text) = 0
    THEN Return(<<>>)
    ELSE IF gs.states[1][3] = NoTexture THEN AttributeError
    ELSE LET before == IF from_index # 0
                       THEN Item(gs.cumulative_advance, from_index - 1)
                       ELSE Return(0)
             to == IF to_index = None THEN Len(gs.text) ELSE Val(to_index)
         IN IF ~Returns(before) THEN before
            ELSE Return(
                << <<"apply_blend_state", gs.states[1][3]>> >>
                \o (IF from_index # 0
                    THEN << <<"glPushMatrix">>, <<"glTranslatef", -before[2], 0, 0>> >>
                    ELSE <<>>)
                \o << <<"glPushClientAttrib">>, <<"glInterleavedArrays">> >>
                \o draw_loop(gs.states, 1, from_index, to)
                \o << <<"glPopClientAttrib">> >>
                \o (IF from_index # 0 THEN << <<"glPopMatrix">> >> ELSE <<>>))

-----------------------------------------------------------------------------
(* pyglet.font.Text: a block of text laid out into lines on demand.  The   *)
(* Text is the record of its fields; a field that no assignment has made   *)
(* yet is None and one that has is Some(value).  A line is the pair of the *)
(* indices it starts and ends at in the working text.  The font gives one  *)
(* glyph per character, all of one texture.                                *)

LEFT == "left"
CENTER == "center"
RIGHT == "right"
BOTTOM == "bottom"
BASELINE == "baseline"
TOP == "top"

TypeError == <<"TypeError">>

\* font.get_glyphs(text)
get_glyphs(font, t) == [i \in 1..Len(t) |-> Glyph(font.advance[t[i]], "tex1")]

\* Text(font, text, width=width, halign=halign, valign=valign) at x = y = 0;
\* cleans counts the calls of _clean.
Text(font, t, width, halign, valign) ==
    [dirty |-> TRUE, font |-> font, text |-> t, x |-> 0, y |-> 0, leading |-> 0,
     layout_width |-> width, halign |-> halign, valign |-> valign,
     text_width |-> 0, text_height |-> 0,
     glyph_string |-> None, lines |-> None, line_height |-> None,
     cleans |-> 0]

\* text.index('\n', i) for a text with a newline at or after i
index_newline(t, i) ==
    CHOOSE end \in i..(Len(t) - 1) :
        /\ t[end + 1] = "\n"
        /\ \A k \in i..(end - 1) : t[k + 1] # "\n"

\* The locals of _clean a layout leaves behind.
Layout(lines, text_width) == [lines |-> lines, text_width |-> text_width]

\* The branch of _clean without a layout width, from index i on: one line per
\* newline-delimited segment, the widest of which gives the width.
RECURSIVE segment_lines(_, _, _, _)
segment_lines(t, gs, i, l) ==
    IF \E k \in i..(Len(t) - 1) : t[k + 1] = "\n"
    THEN LET end == index_newline(t, i)
         IN segment_lines(t, gs, end + 1,
                Layout(Append(l.lines, <<i, end>>),
                       Max(l.text_width, get_subwidth(gs, i, end)[2])))
    ELSE IF Len(t) # i
         THEN Layout(Append(l.lines, <<i, Len(t)>>),
                     Max(l.text_width, get_subwidth(gs, i, Len(t))[2]))
         ELSE l

\* The wrapping that keeps the newline it breaks at in the line.
RECURSIVE wrap_lines_keep_newline(_, _, _, _, _, _)
wrap_lines_keep_newline(t, gs, width, i, bp, lines) ==
    IF i < Len(t) /\ bp > i
    THEN wrap_lines_keep_newline(t, gs, width, bp, get_break_index(gs, bp, width)[2],
                                 Append(lines, <<i, bp>>))
    ELSE IF i < Len(t) - 1 THEN Append(lines, <<i, Len(t)>>)
    ELSE lines

\* The branch of _clean with a layout width, from index i on with break
\* index bp: a line up to every break found, and what is left as the last.
RECURSIVE wrap_lines(_, _, _, _, _, _)
wrap_lines(t, gs, width, i, bp, lines) ==
    IF i < Len(t) /\ bp > i
    THEN wrap_lines(t, gs, width, bp, get_break_index(gs, bp, width)[2],
                    Append(lines, IF t[bp] = "\n" THEN <<i, bp - 1>> ELSE <<i, bp>>))
    ELSE IF i < Len(t) - 1 THEN Append(lines, <<i, Len(t)>>)
    ELSE lines

\* _clean storing the working text.
_clean_storing_working_text(b) ==
    LET t == b.text \o <<" ">>
        gs == GlyphString(t, get_glyphs(b.font, t), 0, 0)
        l == IF b.layout_width = None
             THEN segment_lines(t, gs, 0, Layout(<<>>, 0))
             ELSE Layout(wrap_lines(t, gs, Val(b.layout_width), 0,
                                    get_break_index(gs, 0, Val(b.layout_width))[2], <<>>),
                         b.text_width)
        line_height == b.font.ascent - b.font.descent + b.leading
    IN [b EXCEPT !.text = t,
                 !.glyph_string = Some(gs),
                 !.lines = Some(l.lines),
                 !.text_width = l.text_width,
                 !.line_height = Some(line_height),
                 !.text_height = line_height * Len(l.lines),
                 !.dirty = FALSE,
                 !.cleans = @ + 1]

\* Text._clean
_clean(b) ==
    LET t == b.text \o <<" ">>
        gs == GlyphString(t, get_glyphs(b.font, t), 0, 0)
        l == IF b.layout_width = None
             THEN segment_lines(t, gs, 0, Layout(<<>>, 0))
             ELSE Layout(wrap_lines(t, gs, Val(b.layout_width), 0,
                                    get_break_index(gs, 0, Val(b.layout_width))[2], <<>>),
                         b.text_width)
        line_height == b.font.ascent - b.font.descent + b.leading
    IN [b EXCEPT !.glyph_string = Some(gs),
                 !.lines = Some(l.lines),
                 !.text_width = l.text_width,
                 !.line_height = Some(line_height),
                 !.text_height = line_height * Len(l.lines),
                 !.dirty = FALSE,
                 !.cleans = @ + 1]

\* The layout resolved whether it has changed or not.
cleaned_always(b) == _clean(b)

\* if self._dirty: self._clean()
cleaned(b) == IF b.dirty THEN _clean(b) ELSE b

\* What a reader of the Text comes to: the Text after the call and the
\* value returned or the exception raised.
Read(b, outcome) == [block |-> b, outcome |-> outcome]

\* Text.width read
_get_width(b) ==
    LET c == cleaned(b)
    IN Read(c, Return(IF c.layout_width # None /\ Val(c.layout_width) # 0
                      THEN Val(c.layout_width)
                      ELSE c.text_width))

\* Text.height read
_get_height(b) ==
    LET c == cleaned(b)
    IN Read(c, Return(c.text_height))

\* Text.text read
_get_text(b) == Read(b, Return(b.text))

\* Text.width = width
_set_width(b, width) == [b EXCEPT !.layout_width = width, !.dirty = TRUE]

\* Text.text = text
_set_text(b, t) == [b EXCEPT !.text = t, !.dirty = TRUE]

\* Text.halign = halign
_set_halign(b, halign) == [b EXCEPT !.halign = halign, !.dirty = TRUE]

\* Text.valign = valign
_set_valign(b, valign) == [b EXCEPT !.valign = valign, !.dirty = TRUE]

\* Text.leading = leading: a plain attribute
set_leading(b, leading) == [b EXCEPT !.leading = leading]

\* The x a line of the given width is drawn at, or the TypeError of
\* arithmetic on a layout width of None.
line_x(b, width) ==
    IF b.halign = RIGHT
    THEN IF b.layout_width = None THEN TypeError
         ELSE Return(b.x + (Val(b.layout_width) - width))
    ELSE IF b.halign = CENTER
    THEN IF b.layout_width = None THEN TypeError
         ELSE Return(b.x + ((Val(b.layout_width) \div 2) - (width \div 2)))
    ELSE Return(b.x)

\* The loop of Text.draw over self.lines from line number n on: the GL
\* calls it makes, or the exception that ends it.
RECURSIVE draw_lines(_, _)
draw_lines(b, n) ==
    IF n > Len(Val(b.lines)) THEN Return(<<>>)
    ELSE LET start == Val(b.lines)[n][1]
             end == Val(b.lines)[n][2]
             width == get_subwidth(Val(b.glyph_string), start, end)
             x == line_x(b, width[2])
             drawn == draw(Val(b.glyph_string), start, Some(end))
             rest == draw_lines(b, n + 1)
         IN IF ~Returns(width) THEN width
            ELSE IF ~Returns(x) THEN x
            ELSE IF ~Returns(drawn) THEN drawn
            ELSE IF ~Returns(rest) THEN rest
            ELSE Return(<< <<"glTranslatef", x[2], 0, 0>> >>
                        \o drawn[2]
                        \o << <<"glTranslatef", -x[2], -Val(b.line_height), 0>> >>
                        \o rest[2])

\* Text.draw
text_draw(b) ==
    LET c == cleaned(b)
        height == _get_height(c).outcome[2]
        y == IF c.valign = BOTTOM THEN c.y + (height - c.font.ascent)
             ELSE IF c.valign = CENTER THEN c.y + ((height \div 2) - c.font.ascent)
             ELSE IF c.valign = TOP THEN c.y - c.font.ascent
             ELSE c.y
        lines == draw_lines(c, 1)
    IN Read(c, IF ~Returns(lines) THEN lines
               ELSE Return(<< <<"glPushAttrib">>, <<"glEnable", "GL_TEXTURE_2D">>,
                              <<"glColor4f">>, <<"glPushMatrix">>,
                              <<"glTranslatef", 0, y, 0>> >>
                           \o lines[2]
                           \o << <<"glPopMatrix">>, <<"glPopAttrib">> >>))

-----------------------------------------------------------------------------
(* The state machine.                                                      *)

\* The class attributes of Caret and a layout with nothing selected, over a
\* document s.
Defaults(s) ==
    [text |-> s, style |-> [i \in 1..Len(s) |-> {}], position |-> 0, mark |-> None, ideal_x |-> None,
     ideal_line |-> None, next_attributes |-> {}, selection |-> <<0, 0>>,
     view_x |-> 0, view_y |-> 0,
     visible |-> TRUE, active |-> TRUE, blink_visible |-> TRUE, alpha |-> OPAQUE,
     scheduled |-> 0, period |-> PERIOD, click_count |-> 0,
     since_click |-> CLICK_INTERVAL]

\* Caret.__init__
__init__(c) ==
    _set_visible([c EXCEPT !.ideal_x = None, !.ideal_line = None, !.next_attributes = {}],
                 TRUE)

Commit(c) ==
    /\ text' = c.text
    /\ style' = c.style
    /\ position' = c.position
    /\ mark' = c.mark
    /\ ideal_x' = c.ideal_x
    /\ ideal_line' = c.ideal_line
    /\ next_attributes' = c.next_attributes
    /\ selection' = c.selection
    /\ view_x' = c.view_x
    /\ view_y' = c.view_y
    /\ visible' = c.visible
    /\ active' = c.active
    /\ blink_visible' = c.blink_visible
    /\ alpha' = c.alpha
    /\ scheduled' = c.scheduled
    /\ period' = c.period
    /\ click_count' = c.click_count
    /\ since_click' = c.since_click
    /\ UNCHANGED <<glyph_vars, text_vars>>

\* The caret's fields are those of c.
CaretIs(c) ==
    /\ text = c.text
    /\ style = c.style
    /\ position = c.position
    /\ mark = c.mark
    /\ ideal_x = c.ideal_x
    /\ ideal_line = c.ideal_line
    /\ next_attributes = c.next_attributes
    /\ selection = c.selection
    /\ view_x = c.view_x
    /\ view_y = c.view_y
    /\ visible = c.visible
    /\ active = c.active
    /\ blink_visible = c.blink_visible
    /\ alpha = c.alpha
    /\ scheduled = c.scheduled
    /\ period = c.period
    /\ click_count = c.click_count
    /\ since_click = c.since_click

\* The glyph string of a program that draws no text with one: an empty one
\* that is never called.
NoGlyphs ==
    /\ glyphs = <<>>
    /\ origin = 0
    /\ glyph_string = GlyphString(<<>>, <<>>, 0, 0)
    /\ call = None
    /\ result = None

\* A font of glyphs all as wide as one another, the newline's included.
Monospaced ==
    [ascent |-> 2, descent |-> -1, advance |-> [c \in Chars |-> 1]]

\* A font whose letter is wider than its blank and whose newline takes no
\* room.
Proportional ==
    [ascent |-> 3, descent |-> -1,
     advance |-> [c \in Chars |-> IF c = "a" THEN 2 ELSE IF c = " " THEN 1 ELSE 0]]

Fonts == {Monospaced, Proportional}

\* The Text of a program that lays out no text with one: an empty one that
\* is never assigned to nor read.
NoText ==
    /\ block = Text(Monospaced, <<>>, None, LEFT, BASELINE)
    /\ mutations = 0

\* A caret newly constructed over a document of at most n characters.
Constructed(n) ==
    /\ NoGlyphs
    /\ NoText
    /\ \E s \in StringsUpTo(n) : CaretIs(__init__(Defaults(s)))

\* The points a mouse event can carry: on every line, every glyph boundary
\* and one point to the right of the line's end.
Points ==
    {pt \in (0..(Len(text) + 1)) \X (0..(get_line_count(text) - 1)) :
        pt[1] <= line_end(text, pt[2]) - get_position_from_line(text, pt[2]) + 1}

\* The length of the document once t replaces the selection.
LenAfterTyping(t) ==
    Len(text) + Len(t) - (IF mark = None THEN 0
                          ELSE Max(position, Val(mark)) - Min(position, Val(mark)))

\* A key is typed, while the document has room for it.
OnText(n) ==
    \E ch \in Typed :
        /\ LenAfterTyping(<<ch>>) <= n
        /\ Commit(on_text(State, <<ch>>))

OnTextMotion ==
    \E motion \in Motions :
        /\ Commit(on_text_motion(State, motion, FALSE))

OnTextMotionSelect ==
    \E motion \in Motions :
        /\ Commit(on_text_motion_select(State, motion))

OnMousePress ==
    \E pt \in Points :
        /\ Commit(on_mouse_press(State, pt[1], pt[2]))

OnMouseDrag ==
    \E pt \in Points :
        /\ Commit(on_mouse_drag(State, pt[1], pt[2]))

\* The wheel is turned by at most a notch on each axis, while the viewport is
\* within MaxScroll notches of its origin.
ScrollDeltas == -1..1

InScrollRange(v) ==
    /\ -(MaxScroll * SCROLL_INCREMENT) <= v
    /\ v <= MaxScroll * SCROLL_INCREMENT

OnMouseScroll ==
    \E scroll_x \in ScrollDeltas, scroll_y \in ScrollDeltas :
        LET c == on_mouse_scroll(State, scroll_x, scroll_y)
        IN /\ InScrollRange(c.view_x)
           /\ InScrollRange(c.view_y)
           /\ Commit(c)

\* caret.set_style(attributes)
SetStyle ==
    \E attributes \in SUBSET Attrs \ {{}} :
        /\ Commit(set_style(State, attributes))

OnActivate ==
    /\ Commit(on_activate(State))

OnDeactivate ==
    /\ Commit(on_deactivate(State))

\* caret.visible = v
SetVisible ==
    \E v \in BOOLEAN :
        /\ Commit(_set_visible(State, v))

\* caret.position = index
SetPosition ==
    \E index \in 0..Len(text) :
        /\ Commit(_set_position(State, index))

\* caret.mark = m
SetMark ==
    \E m \in {None} \cup {Some(i) : i \in 0..Len(text)} :
        /\ Commit(_set_mark(State, m))

\* caret.line = line
SetLine ==
    \E line \in 0..(get_line_count(text) - 1) :
        /\ Commit(_set_line(State, line))

\* The clock calls the scheduled blink callback.
Blink ==
    /\ scheduled > 0
    /\ Commit(_blink(State))

\* A quarter of a second passes.
Tick ==
    /\ since_click < CLICK_INTERVAL
    /\ since_click' = since_click + 1
    /\ UNCHANGED <<text, style, position, mark, ideal_x, ideal_line, next_attributes,
                   selection, view_x, view_y, visible, active, blink_visible,
                   alpha, scheduled, period, click_count>>
    /\ UNCHANGED <<glyph_vars, text_vars>>

\* Every event: the window's, the property assignments and the clock's.
Next ==
    \/ OnText(MaxDoc)
    \/ OnTextMotion
    \/ OnTextMotionSelect
    \/ OnMousePress
    \/ OnMouseDrag
    \/ OnActivate
    \/ OnDeactivate
    \/ SetVisible
    \/ SetPosition
    \/ SetMark
    \/ SetLine
    \/ Blink
    \/ Tick

Init == Constructed(MaxDoc)

Spec == Init /\ [][Next]_vars

\* The events that edit the document or move the caret, while time passes.
\* The blink callback is not run, nothing assigns to visible and the window
\* keeps the focus: these write visible, active, blink_visible, alpha and
\* scheduled only, which no handler reads to decide what it does to the
\* document, the position, the mark or the selection.  Leaving them out makes
\* room for longer documents.
NextEdit ==
    \/ OnText(MaxLen)
    \/ OnTextMotion
    \/ OnTextMotionSelect
    \/ OnMousePress
    \/ OnMouseDrag
    \/ SetPosition
    \/ SetMark
    \/ SetLine
    \/ Tick

InitEdit == Constructed(MaxLen)

SpecEdit == InitEdit /\ [][NextEdit]_vars

\* The mouse at work on a document nobody types into: presses and drags,
\* with selections also made from the keyboard and by assigning to mark.
NextMouse ==
    \/ OnMousePress
    \/ OnMouseDrag
    \/ OnTextMotionSelect
    \/ SetMark
    \/ Tick

SpecMouse == Init /\ [][NextMouse]_vars

\* The mouse alone: the wheel scrolls the viewport, presses and drags move
\* the caret, which scrolls the viewport back to where the caret is.
NextScroll ==
    \/ OnMouseScroll
    \/ OnMousePress
    \/ OnMouseDrag
    \/ Tick

SpecScroll == Init /\ [][NextScroll]_vars

\* Styles are set, on the selection or for the text typed next, while the
\* caret is moved and text is typed and deleted.
NextStyle ==
    \/ SetStyle
    \/ OnText(MaxDoc)
    \/ OnTextMotion
    \/ OnTextMotionSelect
    \/ SetPosition
    \/ SetMark
    \/ SetLine

SpecStyle == Init /\ [][NextStyle]_vars

-----------------------------------------------------------------------------
(* The state machine of a GlyphString: it is constructed, then one of its  *)
(* methods is called.  The caret is one over an empty document that gets   *)
(* no event.                                                               *)

\* The characters of a glyph string's text: a letter, the two blanks a line
\* can be broken at, a newline.
GlyphChars == {"a", " ", ZERO_WIDTH_SPACE, "\n"}
\* The advances of its glyphs; a zero-width space may advance by nothing.
Advances == {0, 1, 2}
\* The textures that own them.
Textures == {"tex1", "tex2"}
\* The x a glyph string is constructed at.
Origins == {-1, 0, 1}

\* The glyph string GlyphString(t, gl, x), not called yet.
NewGlyphString(t, gl, x) ==
    /\ glyphs = gl
    /\ origin = x
    /\ glyph_string = GlyphString(t, gl, x, 0)
    /\ call = None
    /\ result = None

\* A glyph string of one texture over any text, with any advances, at any
\* origin.
InitBreak ==
    /\ CaretIs(__init__(Defaults(<<>>)))
    /\ NoText
    /\ \E n \in 0..MaxGlyphs :
         \E t \in [1..n -> GlyphChars], advance \in [1..n -> Advances], x \in Origins :
             NewGlyphString(t, [i \in 1..n |-> Glyph(advance[i], "tex1")], x)

\* The widths a line is broken at.
Widths == 0..(2 * Len(glyph_string.text) + 1)

\* glyph_string.get_break_index(from_index, width)
GetBreakIndex ==
    /\ call = None
    /\ \E from_index \in 0..(Len(glyph_string.text) + 1), width \in Widths :
         /\ call' = <<"get_break_index", from_index, width>>
         /\ result' = get_break_index(glyph_string, from_index, width)
    /\ UNCHANGED <<glyphs, origin, glyph_string, caret_vars, text_vars>>

\* glyph_string.get_subwidth(from_index, to_index), whether the indices are in range
\* or not
GetSubwidth ==
    /\ call = None
    /\ \E from_index \in (-1)..(Len(glyph_string.text) + 1), to_index \in (-1)..(Len(glyph_string.text) + 1) :
         /\ call' = <<"get_subwidth", from_index, to_index>>
         /\ result' = get_subwidth(glyph_string, from_index, to_index)
    /\ UNCHANGED <<glyphs, origin, glyph_string, caret_vars, text_vars>>

\* glyph_string.draw(from_index, to_index)
Draw ==
    /\ call = None
    /\ \E from_index \in 0..(Len(glyph_string.text) + 1),
          to_index \in {None} \cup {Some(i) : i \in 0..(Len(glyph_string.text) + 1)} :
         /\ call' = <<"draw", from_index, to_index>>
         /\ result' = draw(glyph_string, from_index, to_index)
    /\ UNCHANGED <<glyphs, origin, glyph_string, caret_vars, text_vars>>

NextBreak ==
    \/ GetBreakIndex
    \/ GetSubwidth

SpecBreak == InitBreak /\ [][NextBreak]_vars

\* A glyph string over glyphs of any textures and advances, constructed at
\* x = 0 over a text of letters that need not be as long as the glyphs are
\* many: the constructor takes the two as they come.
InitRuns ==
    /\ CaretIs(__init__(Defaults(<<>>)))
    /\ NoText
    /\ \E n \in 0..MaxGlyphs, m \in 0..MaxGlyphs :
         \E advance \in [1..m -> Advances], owner \in [1..m -> Textures] :
             NewGlyphString([i \in 1..n |-> "a"],
                            [i \in 1..m |-> Glyph(advance[i], owner[i])], 0)

NextRuns ==
    \/ GetSubwidth
    \/ Draw

SpecRuns == InitRuns /\ [][NextRuns]_vars

(* The Text: its constructor gives the initial states, every assignment to  *)
(* a property and every read of one is an action.                          *)

\* The widths a Text is laid out to: none, and from too narrow for any glyph
\* to wide enough for all of a text.
LayoutWidths(n) == {None} \cup {Some(w) : w \in 0..n}

HAligns == {LEFT, CENTER, RIGHT}
VAligns == {BASELINE, BOTTOM, CENTER, TOP}

\* A Text newly constructed in one of the given fonts over a text of at most
\* n characters, aligned to its baseline.
NewText(fonts, n) ==
    /\ CaretIs(__init__(Defaults(<<>>)))
    /\ NoGlyphs
    /\ mutations = 0
    /\ \E font \in fonts, t \in StringsUpTo(n), width \in LayoutWidths(n + 1),
          halign \in HAligns :
         block = Text(font, t, width, halign, BASELINE)

\* An assignment to a property of the Text.
Mutate(b) ==
    /\ mutations < MaxMutations
    /\ block' = b
    /\ mutations' = mutations + 1
    /\ UNCHANGED <<caret_vars, glyph_vars>>

\* A read of the Text.
Observe(read) ==
    /\ block' = read.block
    /\ UNCHANGED <<mutations, caret_vars, glyph_vars>>

SetText(n) == \E t \in StringsUpTo(n) : Mutate(_set_text(block, t))
SetWidth(n) == \E width \in LayoutWidths(n) : Mutate(_set_width(block, width))
SetHalign == \E halign \in HAligns : Mutate(_set_halign(block, halign))
SetValign == \E valign \in VAligns : Mutate(_set_valign(block, valign))

\* block.leading = leading
SetLeading ==
    /\ \E leading \in 0..1 : block' = set_leading(block, leading)
    /\ UNCHANGED <<mutations, caret_vars, glyph_vars>>

GetWidth == Observe(_get_width(block))
GetHeight == Observe(_get_height(block))
DrawText == Observe(text_draw(block))

\* A Text that is assigned to and read in any order.
NextText ==
    \/ SetText(MaxAssigned)
    \/ SetWidth(MaxAssigned)
    \/ SetHalign
    \/ SetValign
    \/ GetWidth
    \/ GetHeight
    \/ DrawText

InitText == NewText({Monospaced}, MaxAssigned)

SpecText == InitText /\ [][NextText]_vars

\* The same with its leading changed as well.
NextLeading ==
    \/ NextText
    \/ SetLeading

SpecLeading == InitText /\ [][NextLeading]_vars

\* A Text over any text, width and alignment that is only read.
NextLayout ==
    \/ GetWidth
    \/ GetHeight
    \/ DrawText

InitLayout == NewText(Fonts, MaxText)

SpecLayout == InitLayout /\ [][NextLayout]_vars

\* The caret blinking: keys are typed, the window loses and gets the focus,
\* visible is assigned, and the clock calls the blink callback for as long
\* as it is scheduled: schedule_interval makes the callback recur, so a
\* callback that stays scheduled is called again and again.
NextBlink ==
    \/ OnText(MaxDoc)
    \/ OnActivate
    \/ OnDeactivate
    \/ SetVisible
    \/ Blink

SpecBlink == Init /\ [][NextBlink]_vars /\ WF_vars(Blink)

\* The caret of a class whose PERIOD has been set to 0, which disables
\* blinking: the blink callback is never scheduled.
InitSolid ==
    /\ NoGlyphs
    /\ NoText
    /\ \E s \in StringsUpTo(MaxDoc) : CaretIs(__init__([Defaults(s) EXCEPT !.period = 0]))

NextSolid ==
    \/ OnText(MaxDoc)
    \/ OnTextMotion
    \/ OnTextMotionSelect
    \/ OnMousePress
    \/ OnMouseDrag
    \/ OnActivate
    \/ OnDeactivate
    \/ SetVisible

SpecSolid == InitSolid /\ [][NextSolid]_vars

-----------------------------------------------------------------------------
(* Properties.  A property of what a handler does is stated of every       *)
(* reachable state: the handler is applied to the state and its result     *)
(* compared with what the specification says.                              *)

InRange(i, s) == 0 <= i /\ i <= Len(s)

\* The selection a caret with a mark shows.
Span(p, m) == <<Min(p, m), Max(p, m)>>

\* s without the characters [lo, hi).
Without(s, lo, hi) ==
    [i \in 1..(Len(s) - (hi - lo)) |-> IF i <= lo THEN s[i] ELSE s[i + (hi - lo)]]

\* C1: whatever handlers have run, the position lies in 0..len(text) and the
\* mark is None or lies in 0..len(text).
C1_PositionAndMarkInDocument ==
    /\ InRange(position, text)
    /\ mark # None => InRange(Val(mark), text)

\* The caret stands at the end of a document of three characters that are all
\* selected back to the start.
C1_Witness ==
    /\ Len(text) = 3
    /\ position = Len(text)
    /\ mark = Some(0)

\* C2: after every handler and every assignment to position, mark or line the
\* layout's selection is (min(position, mark), max(position, mark)) when
\* there is a mark and (0, 0) when there is none.
C2_SelectionFollowsMark ==
    /\ mark # None => selection = Span(position, Val(mark))
    /\ mark = None => selection = <<0, 0>>

\* A mark behind the caret's position, the layout showing the text between.
C2_Witness ==
    /\ mark # None
    /\ position < Val(mark)
    /\ selection = <<position, Val(mark)>>

\* The fields a press changes through the method it dispatches.
Edited(c) == <<c.text, c.position, c.mark, c.selection, c.ideal_x, c.ideal_line,
               c.next_attributes>>

\* What C3 says of a press at (x, y) in the present state.
C3_Press(x, y) ==
    LET d == on_mouse_press(State, x, y)
        rapid == since_click < CLICK_INTERVAL
    IN /\ d.since_click = 0
       /\ ~rapid => d.click_count = 1
       /\ rapid /\ click_count < 2 => d.click_count = click_count + 1
       /\ rapid /\ click_count = 2 => d.click_count = 0
       /\ d.click_count = 1 =>
            /\ Edited(d) = Edited(move_to_point(State, x, y))
            /\ d.mark = None
       /\ d.click_count = 2 => Edited(d) = Edited(select_word(State, x, y))
       /\ d.click_count = 0 => Edited(d) = Edited(select_paragraph(State, x, y))
       /\ d.click_count \in {0, 1, 2}

\* C3: a press a quarter of a second or more after the last one counts as
\* click 1, an earlier one as one click more; click 1 moves the caret to the
\* point and drops the mark, click 2 selects the word, click 3 selects the
\* paragraph and sets the count back to 0.
C3_ClickCounting ==
    /\ click_count \in {0, 1, 2}
    /\ \A pt \in Points : C3_Press(pt[1], pt[2])

\* Right after a third rapid press: the count is back at 0 and the next rapid
\* press is click 1 again.
C3_Witness ==
    /\ click_count = 0
    /\ since_click = 0
    /\ mark # None
    /\ on_mouse_press(State, 0, 0).click_count = 1

\* C4: the blink callback is on the clock at most once, and (the period not
\* being 0) it is there exactly when the caret is visible and active;
\* cancelling it when it is not there changes nothing.
C4_BlinkScheduledOnce ==
    /\ scheduled <= 1
    /\ period # 0 => (scheduled = 1 <=> visible /\ active)
    /\ scheduled = 0 => unschedule(State) = State
    /\ scheduled = 0 => _set_visible(State, FALSE).scheduled = 0

\* The window has lost focus while the caret was visible: nothing is scheduled.
C4_Witness ==
    /\ visible
    /\ ~active
    /\ scheduled = 0

\* C5: the caret is drawn opaque only while visible and active; hiding it and
\* deactivating the window make it transparent, and deactivating does not
\* change the visible flag.
C5_OpaqueOnlyVisibleAndActive ==
    /\ alpha = OPAQUE => visible /\ active
    /\ _set_visible(State, FALSE).alpha = TRANSPARENT
    /\ on_deactivate(State).alpha = TRANSPARENT
    /\ on_deactivate(State).visible = visible

\* An inactive window's caret after an event that nudged it: the blink phase
\* is on, the visible flag is set, and the caret is transparent.
C5_Witness ==
    /\ ~active
    /\ visible
    /\ blink_visible
    /\ alpha = TRANSPARENT

\* The motions that move the caret (all but the two that delete).
CursorMotions == Motions \ {MOTION_BACKSPACE, MOTION_DELETE}

\* What C6 asks of the state d a nudging call has left.
ShownSolid(d) ==
    /\ d.visible
    /\ d.active => /\ d.alpha = OPAQUE
                   /\ d.blink_visible
                   /\ d.scheduled = 1

\* C6: right after on_text, on_text_motion, on_text_motion_select,
\* on_mouse_press, on_mouse_drag and after visible = True the visible flag is
\* set and, if the window is active, the caret is opaque and its blink
\* callback newly scheduled, whatever the blink phase was.
C6_NudgeShowsCaret ==
    /\ \A ch \in Typed : ShownSolid(on_text(State, <<ch>>))
    /\ \A motion \in Motions :
         /\ ShownSolid(on_text_motion(State, motion, FALSE))
         /\ ShownSolid(on_text_motion_select(State, motion))
    /\ \A pt \in Points :
         /\ ShownSolid(on_mouse_press(State, pt[1], pt[2]))
         /\ ShownSolid(on_mouse_drag(State, pt[1], pt[2]))
    /\ ShownSolid(_set_visible(State, TRUE))

\* The blink callback has turned the caret of an active window off and a
\* motion turns it on again.
C6_Witness ==
    /\ visible
    /\ active
    /\ ~blink_visible
    /\ alpha = TRANSPARENT
    /\ on_text_motion(State, MOTION_LEFT, FALSE).alpha = OPAQUE

\* What C7 says of BACKSPACE and DELETE in the present state.
C7_Delete(select) ==
    LET b == on_text_motion(State, MOTION_BACKSPACE, select)
        d == on_text_motion(State, MOTION_DELETE, select)
        lo == Min(position, Val(mark))
        hi == Max(position, Val(mark))
    IN /\ mark # None =>
            /\ b.text = Without(text, lo, hi) /\ b.position = lo /\ b.mark = None
            /\ d.text = Without(text, lo, hi) /\ d.position = lo /\ d.mark = None
       /\ mark = None /\ position > 0 =>
            /\ b.text = Without(text, position - 1, position)
            /\ b.position = position - 1
       /\ mark = None /\ position = 0 =>
            /\ b.text = text
            /\ b.position = position
       /\ mark = None /\ position < Len(text) =>
            /\ d.text = Without(text, position, position + 1)
            /\ d.position = position
       /\ mark = None /\ position = Len(text) =>
            /\ d.text = text
            /\ d.position = position

\* C7: BACKSPACE and DELETE delete the selection if there is one, leaving the
\* position at its lower end and no mark; else BACKSPACE deletes the character
\* before the position and moves one back, DELETE deletes the character at
\* the position and stays, and at the document's start (BACKSPACE) or end
\* (DELETE) nothing changes.
C7_BackspaceAndDelete == \A select \in BOOLEAN : C7_Delete(select)

\* A selection of two characters with the caret at its upper end, which
\* BACKSPACE deletes.
C7_Witness ==
    /\ mark # None
    /\ position = Val(mark) + 2
    /\ Len(on_text_motion(State, MOTION_BACKSPACE, FALSE).text) = Len(text) - 2

RECURSIVE SelectMotions(_, _, _)
\* n select-variant motions, one after the other.
SelectMotions(c, motion, n) ==
    IF n = 0 THEN c ELSE SelectMotions(on_text_motion_select(c, motion), motion, n - 1)

\* C8: a select-variant cursor motion sets the mark to the position if there
\* is none and leaves a mark that is there alone, and the selection is the
\* span between the new position and the mark; three RIGHTs from p select
\* [p, p+3) and three LEFTs [p-3, p).
C8_SelectMotionKeepsMark ==
    /\ \A motion \in CursorMotions :
         LET d == on_text_motion_select(State, motion)
         IN /\ d.mark = IF mark = None THEN Some(position) ELSE mark
            /\ d.selection = Span(d.position, Val(d.mark))
    /\ mark = None /\ position + 3 <= Len(text) =>
         LET d == SelectMotions(State, MOTION_RIGHT, 3)
         IN d.mark = Some(position) /\ d.selection = <<position, position + 3>>
    /\ mark = None /\ position >= 3 =>
         LET d == SelectMotions(State, MOTION_LEFT, 3)
         IN d.mark = Some(position) /\ d.selection = <<position - 3, position>>

\* A caret that has been moved, with no mark and three characters to its
\* right, and three RIGHTs selecting them.
C8_Witness ==
    /\ ideal_x # None
    /\ mark = None
    /\ position + 3 <= Len(text)
    /\ SelectMotions(State, MOTION_RIGHT, 3).selection = <<position, position + 3>>

\* C9: after on_text_motion without select there is no mark and the layout's
\* selection is cleared, whatever the motion; unless the motion is BACKSPACE
\* or DELETE the text is what it was.
C9_MotionDropsSelection ==
    \A motion \in Motions :
        LET d == on_text_motion(State, motion, FALSE)
        IN /\ d.mark = None
           /\ d.selection = <<0, 0>>
           /\ motion \in CursorMotions => d.text = text

\* A shown selection that MOTION_RIGHT drops.
C9_Witness ==
    /\ mark # None
    /\ selection # <<0, 0>>
    /\ on_text_motion(State, MOTION_RIGHT, FALSE).mark = None
    /\ on_text_motion(State, MOTION_RIGHT, FALSE).selection = <<0, 0>>

\* What C10 says of LEFT and RIGHT in the present state.
C10_Move(select) ==
    LET l == on_text_motion(State, MOTION_LEFT, select)
        r == on_text_motion(State, MOTION_RIGHT, select)
    IN /\ l.position = (IF position = 0 THEN 0 ELSE position - 1)
       /\ r.position = (IF position = Len(text) THEN Len(text) ELSE position + 1)
       /\ l.text = text
       /\ r.text = text

\* C10: LEFT moves the position one back and RIGHT one forward, except that
\* LEFT at 0 and RIGHT at the end leave it; the text is not changed.
C10_LeftRightClamped == \A select \in BOOLEAN : C10_Move(select)

\* The caret moved to the start of a document that is not empty: LEFT leaves
\* it there, RIGHT moves it.
C10_Witness ==
    /\ ideal_x # None
    /\ position = 0
    /\ Len(text) > 0
    /\ on_text_motion(State, MOTION_LEFT, FALSE).position = 0
    /\ on_text_motion(State, MOTION_RIGHT, FALSE).position = 1

\* The position the layout gives for a point.
PositionAt(s, pt) ==
    get_position_on_line(s, get_line_from_point(s, pt[1], pt[2]), pt[1])

\* What C11 says of a single click at a followed by drags to b1 and then b2.
C11_PressThenDrag(a, b1, b2) ==
    LET p == on_mouse_press(State, a[1], a[2])
        d1 == on_mouse_drag(p, b1[1], b1[2])
        d2 == on_mouse_drag(d1, b2[1], b2[2])
    IN /\ p.mark = None
       /\ p.position = PositionAt(text, a)
       /\ d1.mark = Some(PositionAt(text, a))
       /\ d1.position = PositionAt(text, b1)
       /\ d2.mark = Some(PositionAt(text, a))
       /\ d2.position = PositionAt(text, b2)

\* C11: a drag sets the mark to the position if there is no mark and leaves a
\* mark that is there alone, then moves the position to the point dragged to;
\* after a single click at A and drags to B1, B2 the mark is the position of A
\* and the position that of the last point.
C11_DragAnchorsAtPress ==
    /\ \A b \in Points :
         LET d == on_mouse_drag(State, b[1], b[2])
         IN /\ d.mark = IF mark = None THEN Some(position) ELSE mark
            /\ d.position = PositionAt(text, b)
            /\ d.text = text
    /\ count_click(State) = 1 =>
         \A a \in Points : \A b1 \in Points : \A b2 \in Points :
             C11_PressThenDrag(a, b1, b2)

\* In the middle of a drag that began with a single click: the mark is where
\* the press was, the position has been dragged off it, and the next drag
\* keeps the mark.
C11_Witness ==
    /\ click_count = 1
    /\ mark # None
    /\ position > Val(mark) + 1
    /\ selection = <<Val(mark), position>>
    /\ on_mouse_drag(State, 0, 0).mark = mark
    /\ on_mouse_drag(State, 0, 0).position = 0

\* What C12 says of turning the wheel by (scroll_x, scroll_y) in the present
\* state.
C12_Scroll(scroll_x, scroll_y) ==
    LET d == on_mouse_scroll(State, scroll_x, scroll_y)
    IN /\ d.view_x = view_x - 16 * scroll_x
       /\ d.view_y = view_y + 16 * scroll_y
       /\ d.position = position
       /\ d.mark = mark
       /\ d.text = text
       /\ d.visible = visible
       /\ d.scheduled = scheduled
       /\ d.blink_visible = blink_visible
       /\ d.alpha = alpha
       /\ d.click_count = click_count
       /\ d.since_click = since_click
       /\ [d EXCEPT !.view_x = view_x, !.view_y = view_y] = State

\* C12: on_mouse_scroll moves the viewport by 16 pixels for every notch of the
\* wheel on each axis (view_x against scroll_x, view_y with scroll_y) and
\* leaves the position, the mark, the document, the visible flag, the blink
\* callback and the click count as they were.
C12_ScrollPansViewport ==
    \A scroll_x \in ScrollDeltas, scroll_y \in ScrollDeltas :
        C12_Scroll(scroll_x, scroll_y)

\* The viewport has been scrolled a notch on both axes while text was
\* selected, and another notch takes it a notch further.
C12_Witness ==
    /\ view_x = -SCROLL_INCREMENT
    /\ view_y = SCROLL_INCREMENT
    /\ mark # None
    /\ position # Val(mark)
    /\ on_mouse_scroll(State, 1, -1).view_x = -32
    /\ on_mouse_scroll(State, 1, -1).view_y = 0

\* The states the public operations that move the caret without typing leave,
\* the assignment to line among them or not.
C13_AfterMoving(with_line) ==
    {_set_position(State, index) : index \in 0..Len(text)}
    \cup {on_text_motion(State, motion, select) : motion \in Motions, select \in BOOLEAN}
    \cup {move_to_point(State, pt[1], pt[2]) : pt \in Points}
    \cup {select_to_point(State, pt[1], pt[2]) : pt \in Points}
    \cup {select_word(State, pt[1], pt[2]) : pt \in Points}
    \cup {select_paragraph(State, pt[1], pt[2]) : pt \in Points}
    \cup (IF with_line
          THEN {_set_line(State, line) : line \in 0..(get_line_count(text) - 1)}
          ELSE {})

\* on_text gives the characters it inserts the pending attributes.
C13_TypedWithPending ==
    \A ch \in Typed :
        LET d == on_text(State, <<ch>>)
            at == IF mark = None THEN position ELSE Min(position, Val(mark))
        IN next_attributes \subseteq d.style[at + 1]

\* C13: once the position setter, the line setter, on_text_motion,
\* move_to_point, select_to_point, select_word or select_paragraph has moved
\* the caret no style attributes are pending, and on_text inserts what is
\* typed with the pending attributes.
C13_PendingStyleCleared ==
    /\ \A d \in C13_AfterMoving(TRUE) :
         d.position # position => d.next_attributes = {}
    /\ C13_TypedWithPending

\* What does hold of the pending attributes: every one of these operations
\* but the assignment to line clears them, and that one keeps them.
C13_ClearedExceptByLine ==
    /\ \A d \in C13_AfterMoving(FALSE) : d.next_attributes = {}
    /\ \A line \in 0..(get_line_count(text) - 1) :
         _set_line(State, line).next_attributes = next_attributes
    /\ C13_TypedWithPending

-----------------------------------------------------------------------------
(* Properties of GlyphString.                                              *)

\* The call recorded is one of the method named.
Called(method) == call # None /\ call[1] = method

BreakAt == {" ", ZERO_WIDTH_SPACE}

RECURSIVE AdvanceSum(_, _)
\* The sum of the advances of the glyphs i .. j - 1.
AdvanceSum(i, j) ==
    IF j <= i THEN 0 ELSE AdvanceSum(i, j - 1) + glyphs[j].advance

\* The width of the glyphs i .. j - 1 as the glyph string itself measures it.
SubWidth(i, j) == get_subwidth(glyph_string, i, j)[2]

\* C14: the index r that get_break_index(i, W) returns for an i before the
\* end of the text is i, or the substring [i, r) is at most W wide: as
\* get_subwidth measures it, and, the string not being constructed left of
\* x = 0, as the sum of the advances of its glyphs.
C14_BreakFitsWidth ==
    Called("get_break_index") /\ call[2] < Len(glyph_string.text) =>
        LET i == call[2]
            W == call[3]
            r == result[2]
        IN /\ Returns(result)
           /\ \/ r = i
              \/ /\ i < r
                 /\ r <= Len(glyph_string.text)
                 /\ Returns(get_subwidth(glyph_string, i, r))
                 /\ SubWidth(i, r) <= W
                 /\ origin >= 0 => AdvanceSum(i, r) <= W

\* A line of three glyphs is broken after a blank in second place because
\* the third glyph does not fit.
C14_Witness ==
    /\ Called("get_break_index")
    /\ call[2] = 0
    /\ Len(glyph_string.text) = 3
    /\ glyph_string.text[2] \in BreakAt
    /\ AdvanceSum(0, 3) > call[3]
    /\ origin = 0
    /\ result = Return(2)

\* The break index by its definition, Wd(i, j) being the width of [i, j):
\* with o the first index whose character makes the substring from i wider
\* than W (the length if there is none), the index after the first newline
\* before o, else the index after the last blank before o, else i.
BreakIndexRef(i, W, Wd(_, _)) ==
    LET n == Len(glyph_string.text)
        over == {k \in i..(n - 1) : Wd(i, k + 1) > W}
        o == IF over = {} THEN n ELSE CHOOSE k \in over : \A h \in over : k <= h
        newlines == {k \in i..(o - 1) : glyph_string.text[k + 1] = "\n"}
        blanks == {k \in i..(o - 1) : glyph_string.text[k + 1] \in BreakAt}
    IN IF i >= n THEN i
       ELSE IF newlines # {} THEN (CHOOSE k \in newlines : \A h \in newlines : k <= h) + 1
       ELSE IF blanks # {} THEN (CHOOSE k \in blanks : \A h \in blanks : k >= h) + 1
       ELSE i

\* C15: get_break_index(i, W) returns the break index as defined: i at or
\* past the end; else the index after the first newline reached before the
\* substring overflows W, whatever blanks there are; else the index after
\* the last blank or zero-width space before the overflow; else i.  The
\* result lies between i and max(i, len(text)).
C15_BreakIndexAsDefined ==
    Called("get_break_index") =>
        LET i == call[2]
            W == call[3]
        IN /\ result = Return(BreakIndexRef(i, W, SubWidth))
           /\ origin = 0 => result = Return(BreakIndexRef(i, W, AdvanceSum))
           /\ i <= result[2]
           /\ result[2] <= Max(i, Len(glyph_string.text))

\* A newline is followed by a blank, both fit, and the break is after the
\* newline.
C15_Witness ==
    /\ Called("get_break_index")
    /\ call[2] = 0
    /\ Len(glyph_string.text) = 3
    /\ glyph_string.text[2] = "\n"
    /\ glyph_string.text[3] \in BreakAt
    /\ AdvanceSum(0, 3) + origin <= call[3]
    /\ result = Return(2)

\* The glyph indices of the k-th texture run.
RunGlyphs(k) ==
    LET run == glyph_string.states[k]
    IN run[1]..(run[1] + run[2] - 1)

\* C16: the texture runs of a constructed glyph string partition the glyph
\* indices: they start at 0, each starts where the one before ends, the last
\* ends at the number of glyphs, every glyph index lies in exactly one of
\* them and its glyph is owned by that run's texture; the packed array holds
\* 20 floats per glyph; two glyphs of one texture make the single run
\* (0, 2, tex).
C16_RunsPartitionGlyphs ==
    LET states == glyph_string.states
        n == Len(glyphs)
    IN /\ Len(states) >= 1
       /\ states[1][1] = 0
       /\ \A k \in 1..(Len(states) - 1) :
            /\ states[k + 1][1] = states[k][1] + states[k][2]
            /\ states[k][1] < states[k + 1][1]
       /\ states[Len(states)][1] + states[Len(states)][2] = n
       /\ \A g \in 0..(n - 1) :
            /\ Cardinality({k \in 1..Len(states) : g \in RunGlyphs(k)}) = 1
            /\ \A k \in 1..Len(states) :
                 g \in RunGlyphs(k) => glyphs[g + 1].owner = states[k][3]
       /\ Len(glyph_string.array) = 20 * n
       /\ n = 2 /\ glyphs[1].owner = glyphs[2].owner
            => states = << <<0, 2, glyphs[1].owner>> >>

\* Three glyphs, the first two of one texture and the third of another, make
\* two runs.
C16_Witness ==
    /\ Len(glyphs) = 3
    /\ glyphs[1].owner = "tex1" /\ glyphs[2].owner = "tex1" /\ glyphs[3].owner = "tex2"
    /\ glyph_string.states = << <<0, 2, "tex1">>, <<2, 1, "tex2">> >>
    /\ Len(glyph_string.array) = 60

\* C17: the cumulative_advance table of a constructed glyph string has one
\* entry per character of the text, never decreases from one entry to the
\* next, and ends with the width of the string.
C17_CumulativeAdvance ==
    LET table == glyph_string.cumulative_advance
    IN /\ Len(table) = Len(glyph_string.text)
       /\ \A k \in 1..(Len(table) - 1) : table[k] <= table[k + 1]
       /\ table # <<>> => table[Len(table)] = glyph_string.width
       /\ \A k \in 1..Len(table) : table[k] = origin + AdvanceSum(0, k)

\* A string of three glyphs at x = 0, the second advancing by nothing: the
\* table repeats an entry and ends with the width.
C17_Witness ==
    /\ Len(glyphs) = 3
    /\ origin = 0
    /\ glyphs[1].advance = 1 /\ glyphs[2].advance = 0 /\ glyphs[3].advance = 2
    /\ glyph_string.cumulative_advance = <<1, 1, 3>>
    /\ glyph_string.width = 3

\* The call get_subwidth(0, n) has been made, n the length of the text.
C18_WholeMeasured ==
    /\ Called("get_subwidth")
    /\ call[2] = 0
    /\ call[3] = Len(glyph_string.text)

\* C18 as stated: over a text of any length n, get_subwidth(0, n) returns the
\* total width.
C18_WholeIsWidth ==
    C18_WholeMeasured => result = Return(glyph_string.width)

\* C18, for a text that is not empty: get_subwidth(0, n) returns the total
\* width.
C18_WholeIsWidthNonEmpty ==
    C18_WholeMeasured /\ glyph_string.text # <<>> =>
        result = Return(glyph_string.width)

\* The whole of a string of three glyphs at x = 0 is measured and comes to
\* the sum of their advances.
C18_Witness ==
    /\ C18_WholeMeasured
    /\ Len(glyph_string.text) = 3
    /\ origin = 0
    /\ result = Return(AdvanceSum(0, 3))
    /\ result = Return(glyph_string.width)
    /\ glyph_string.width > 0

\* get_subwidth(from_index, to_index) called against its precondition: the
\* slice is empty or backwards, or an index is outside [0, len(text)].
C19_BadSlice ==
    /\ Called("get_subwidth")
    /\ \/ call[3] <= call[2]
       \/ call[2] \notin 0..Len(glyph_string.text)
       \/ call[3] \notin 0..Len(glyph_string.text)

\* get_subwidth called against its precondition returns no width.
C19_SubwidthFailsFast == C19_BadSlice => ~Returns(result)

\* No glyph string is constructed over glyphs that are not as many as the
\* characters of its text.
C19_ConstructionFailsFast == Len(glyphs) = Len(glyph_string.text)

\* C19: a violated precondition ends in an error: get_subwidth with
\* to_index <= from_index or an index outside [0, len(text)] returns no
\* width, and no glyph string is constructed with len(glyphs) # len(text).
C19_PreconditionsFailFast ==
    /\ C19_SubwidthFailsFast
    /\ C19_ConstructionFailsFast

\* The GL calls of the draw recorded in result.
Calls == result[2]

\* The places among them where glyph g is drawn: the glDrawArrays calls whose
\* quads include its four vertices.
DrawnAt(g) ==
    {p \in 1..Len(Calls) :
        /\ Calls[p][1] = "glDrawArrays"
        /\ Calls[p][2] <= 4 * g
        /\ 4 * g < Calls[p][2] + Calls[p][3]}

\* The texture bound when call p is made: that of the last glBindTexture
\* before it.
BoundAt(p) ==
    LET binds == {q \in 1..(p - 1) : Calls[q][1] = "glBindTexture"}
    IN IF binds = {} THEN NoTexture
       ELSE Calls[CHOOSE q \in binds : \A h \in binds : h <= q][2]

\* draw(from_index, to_index) has been called on a glyph string of one glyph
\* per character with 0 <= from_index <= to_index <= len(text).
C20_DrawCalled ==
    /\ Called("draw")
    /\ Len(glyphs) = Len(glyph_string.text)
    /\ call[3] # None
    /\ call[2] <= Val(call[3])
    /\ Val(call[3]) <= Len(glyph_string.text)

\* C20: the draw calls of draw(from_index, to_index) cover exactly the
\* glyphs of [from_index, to_index): each is drawn once, with the texture
\* that owns it bound, and no other glyph is drawn; nothing is drawn when
\* from_index >= len(text), from_index = to_index or the text is empty.
C20_DrawsRangeOnce ==
    C20_DrawCalled =>
        LET from_index == call[2]
            to_index == Val(call[3])
        IN /\ Returns(result)
           /\ \A g \in 0..MaxGlyphs :
                /\ Cardinality(DrawnAt(g)) =
                       IF from_index <= g /\ g < to_index THEN 1 ELSE 0
                /\ \A p \in DrawnAt(g) : BoundAt(p) = glyphs[g + 1].owner
           /\ (\/ from_index >= Len(glyph_string.text)
               \/ from_index = to_index
               \/ glyph_string.text = <<>>) => Calls = <<>>

\* The same of a glyph string whose glyphs are all of one texture.
C20_DrawsRangeOnceOneTexture ==
    Len(glyph_string.states) = 1 => C20_DrawsRangeOnce

\* The same of a draw from the start of the string.
C20_DrawsRangeOnceFromStart ==
    Called("draw") /\ call[2] = 0 => C20_DrawsRangeOnce

-----------------------------------------------------------------------------
(* Properties of Text.                                                     *)

\* A Text newly constructed with the values b has now.
Fresh(b) ==
    [Text(b.font, b.text, b.layout_width, b.halign, b.valign) EXCEPT !.leading = b.leading]

\* The Texts an assignment to text, width, halign or valign of b leaves.
Mutated(b) ==
    {_set_text(b, t) : t \in StringsUpTo(MaxAssigned)}
    \cup {_set_width(b, width) : width \in LayoutWidths(MaxAssigned)}
    \cup {_set_halign(b, halign) : halign \in HAligns}
    \cup {_set_valign(b, valign) : valign \in VAligns}

\* The Texts a read of width or height or draw() of b leaves.
Reads(b) == {_get_width(b).block, _get_height(b).block, text_draw(b).block}

\* Every assignment leaves the Text dirty, a Text neither assigned to nor
\* read is dirty, every read leaves it clean, and a clean Text holds the
\* lines, the line height and the height of the layout of its current values.
C21_CleanMeansCurrentLines ==
    /\ \A b \in Mutated(block) : b.dirty
    /\ block.cleans = 0 => block.dirty
    /\ \A read \in Reads(block) : ~read.dirty
    /\ ~block.dirty =>
           LET now == _clean(Fresh(block))
           IN /\ block.lines = now.lines
              /\ block.line_height = now.line_height
              /\ block.text_height = now.text_height
              /\ block.glyph_string = now.glyph_string

\* C21: every assignment to text, width, halign or valign leaves the Text
\* dirty, a newly constructed Text is dirty, and whatever has been assigned
\* and read before, a read of width, of height and draw() come to what they
\* come to on the layout of the current text and layout width.
C21_ReadersSeeCurrentLayout ==
    /\ C21_CleanMeansCurrentLines
    /\ _get_width(block).outcome = _get_width(Fresh(block)).outcome
    /\ _get_height(block).outcome = _get_height(Fresh(block)).outcome
    /\ text_draw(block).outcome = text_draw(Fresh(block)).outcome

\* The same of a Text whose layout width is not 0.
C21_ReadersSeeCurrentLayoutNonZero ==
    block.layout_width # Some(0) => C21_ReadersSeeCurrentLayout

\* C22: a second read of width or height or a second draw() with no
\* assignment in between leaves the Text as the first left it, the count of
\* recomputations included, and comes to the same; the recomputations are
\* never more than the assignments and one.
C22_SecondReadRecomputesNothing ==
    /\ \A first \in Reads(block) :
         /\ ~first.dirty
         /\ \A second \in Reads(first) : second = first
    /\ _get_width(_get_width(block).block).outcome = _get_width(block).outcome
    /\ _get_height(_get_height(block).block).outcome = _get_height(block).outcome
    /\ text_draw(text_draw(block).block).outcome = text_draw(block).outcome
    /\ block.cleans <= mutations + 1

\* A Text has been read, assigned to and read, and assigned to and read
\* again: it has been laid out three times and is clean.
C22_Witness ==
    /\ mutations = 2
    /\ block.cleans = 3
    /\ ~block.dirty
    /\ text_draw(block).block = block

\* C23: the text read right after an assignment is the text assigned; no
\* other assignment and no read of width or height and no draw() changes the
\* text read, recomputing or not: the blank that the layout adds to its
\* working text is not in it.
C23_TextReadIsTextAssigned ==
    /\ \A t \in StringsUpTo(MaxAssigned) :
         _get_text(_set_text(block, t)).outcome = Return(t)
    /\ \A b \in Mutated(block) \ {_set_text(block, t) : t \in StringsUpTo(MaxAssigned)} :
         _get_text(b).outcome = _get_text(block).outcome
    /\ \A read \in Reads(block) :
         _get_text(read).outcome = _get_text(block).outcome
    /\ _get_text(block).block = block
    /\ ~block.dirty =>
           Val(block.glyph_string).text = _get_text(block).outcome[2] \o <<" ">>

\* A text has been assigned and laid out: the layout works on the text and
\* a blank, the text read is the text assigned.
C23_Witness ==
    /\ mutations > 0
    /\ ~block.dirty
    /\ _get_text(block).outcome = Return(<<"a">>)
    /\ Val(block.glyph_string).text = <<"a", " ">>

\* The text the layout of the Text works on.
Working == block.text \o <<" ">>

\* The lines of a Text that has been laid out.
Lines == Val(block.lines)

\* The Text has been laid out for the values it has.
LaidOut == ~block.dirty

RECURSIVE LineAdvance(_, _)
\* The sum of the advances of the glyphs of the working text from i up to j.
LineAdvance(i, j) ==
    IF j <= i THEN 0
    ELSE LineAdvance(i, j - 1) + block.font.advance[Working[j]]

\* The largest of a set of numbers that is not empty.
Largest(S) == CHOOSE w \in S : \A v \in S : v <= w

\* The lines are the newline-delimited segments of the working text, one
\* more than it has newlines, none with a newline in it, and the width is
\* that of the widest line, a line being as wide as its glyphs advance.
C24_Segments ==
    /\ Len(Lines) = Cardinality({k \in 1..Len(Working) : Working[k] = "\n"}) + 1
    /\ Lines[1][1] = 0
    /\ Lines[Len(Lines)][2] = Len(Working)
    /\ \A n \in 1..Len(Lines) :
         /\ Lines[n][1] <= Lines[n][2]
         /\ \A k \in (Lines[n][1] + 1)..Lines[n][2] : Working[k] # "\n"
    /\ \A n \in 1..(Len(Lines) - 1) :
         /\ Working[Lines[n][2] + 1] = "\n"
         /\ Lines[n + 1][1] = Lines[n][2] + 1
    /\ block.text_width =
           Largest({LineAdvance(Lines[n][1], Lines[n][2]) : n \in 1..Len(Lines)})
    /\ _get_width(block).outcome = Return(block.text_width)

\* C24: laid out with no layout width, a Text has one line per
\* newline-delimited segment of its working text and the width of the widest
\* of them, whatever the text, empty segments and a leading newline included.
C24_NoWrapSegmentsAndWidth ==
    LaidOut /\ block.layout_width = None => C24_Segments

\* The same of a text that does not begin with a newline.
C24_NoWrapNoLeadingNewline ==
    LaidOut /\ block.layout_width = None
            /\ (block.text = <<>> \/ block.text[1] # "\n") => C24_Segments

\* Character k of the working text is a newline that a line was broken at:
\* a line ends before it and the next, if there is one, starts after it.
C25_BreakNewline(k) ==
    /\ Working[k + 1] = "\n"
    /\ \E n \in 1..Len(Lines) :
         /\ Lines[n][2] = k
         /\ n < Len(Lines) => Lines[n + 1][1] = k + 1

\* Character k is the blank the layout added, left over on its own after the
\* last break and too wide for the layout width.
C25_DroppedBlank(k) ==
    /\ k = Len(Working) - 1
    /\ block.font.advance[" "] > Val(block.layout_width)
    /\ \/ Lines = <<>> /\ k = 0
       \/ Lines # <<>> /\ Lines[Len(Lines)][2] = k
       \/ Lines # <<>> /\ Lines[Len(Lines)][2] = k - 1 /\ Working[k] = "\n"

\* C25: laid out with a layout width, the lines of a Text are in order and
\* apart, the first starts at 0 and each next where the one before was
\* broken, which is after the newline if it was broken at one, and no line
\* ends with a newline; every
\* character of the working text is in exactly one line, but for the
\* newlines broken at and for the added blank when it is left on its own
\* and does not fit.
C25_WrappedLinesCoverText ==
    LaidOut /\ block.layout_width # None =>
        /\ Len(Lines) <= Len(Working)
        /\ Lines # <<>> => Lines[1][1] = 0
        /\ \A n \in 1..Len(Lines) :
             /\ 0 <= Lines[n][1]
             /\ Lines[n][1] <= Lines[n][2]
             /\ Lines[n][2] <= Len(Working)
             /\ Lines[n][1] < Lines[n][2] => Working[Lines[n][2]] # "\n"
        /\ \A n \in 1..(Len(Lines) - 1) :
             /\ Lines[n][1] < Lines[n + 1][1]
             /\ \/ Lines[n + 1][1] = Lines[n][2]
                \/ /\ Lines[n + 1][1] = Lines[n][2] + 1
                   /\ Working[Lines[n][2] + 1] = "\n"
        /\ \A k \in 0..(Len(Working) - 1) :
             LET holding == {n \in 1..Len(Lines) : Lines[n][1] <= k /\ k < Lines[n][2]}
             IN \/ Cardinality(holding) = 1 /\ ~C25_DroppedBlank(k)
                \/ holding = {} /\ C25_BreakNewline(k)
                \/ holding = {} /\ C25_DroppedBlank(k)

\* "a\na" laid out to a width that holds all of it is broken at the newline,
\* which is in neither line.
C25_Witness ==
    /\ LaidOut
    /\ block.text = <<"a", "\n", "a">>
    /\ block.layout_width = Some(4)
    /\ block.font = Monospaced
    /\ Lines = << <<0, 1>>, <<2, 4>> >>

\* C26: the height read is the font's ascent less its descent plus the
\* leading the Text has now, times the number of lines of the layout of its
\* current values; an empty text has one line.
C26_HeightIsLinesTimesLineHeight ==
    LET now == _clean(Fresh(block))
    IN /\ _get_height(block).outcome =
              Return((block.font.ascent - block.font.descent + block.leading)
                     * Len(Val(now.lines)))
       /\ block.text = <<>> => Len(Val(now.lines)) = 1

\* The same of a Text whose leading has been 0 all along and whose layout
\* width is not 0.
C26_HeightWithoutLeading ==
    block.leading = 0 /\ block.layout_width # Some(0) => C26_HeightIsLinesTimesLineHeight

\* The GL calls of draw() of the Text as it is.
Drawn == text_draw(block).outcome[2]

\* The places among them where the pen is moved to the start of a line: the
\* translations along x alone that do not follow a glPushMatrix.
LineStarts ==
    {p \in 2..Len(Drawn) :
        /\ Drawn[p][1] = "glTranslatef"
        /\ Drawn[p][3] = 0
        /\ Drawn[p - 1][1] # "glPushMatrix"}

\* What the lines of the Text are aligned against: the layout width, or the
\* line's own width if there is none.
C27_AlignedAgainst(width) ==
    IF block.layout_width = None THEN width ELSE Val(block.layout_width)

\* The x of a line of the given width.
C27_Offset(width) ==
    IF block.halign = RIGHT THEN C27_AlignedAgainst(width) - width
    ELSE IF block.halign = CENTER
    THEN (C27_AlignedAgainst(width) \div 2) - (width \div 2)
    ELSE 0

\* C27: draw() completes without error whatever halign and whether a layout
\* width is set or not, and moves the pen for every line to the offset of
\* the line's width against the layout width, or against the line's own
\* width if there is none.
C27_DrawAlignsEveryLine ==
    LET laid == cleaned(block)
        lines == Val(laid.lines)
    IN /\ Returns(text_draw(block).outcome)
       /\ Cardinality(LineStarts) = Len(lines)
       /\ \A p \in LineStarts :
            LET n == Cardinality({q \in LineStarts : q <= p})
                width == get_subwidth(Val(laid.glyph_string), lines[n][1], lines[n][2])[2]
            IN Drawn[p] = <<"glTranslatef", C27_Offset(width), 0, 0>>

\* The same of a Text that is aligned left or has a layout width.
C27_DrawAlignsLeftOrWrapped ==
    block.halign = LEFT \/ block.layout_width # None => C27_DrawAlignsEveryLine

-----------------------------------------------------------------------------
(* Properties of the caret's vertical and word motions.                    *)

\* The x of the caret on its line.
CaretX(c) == get_point_from_position(c.text, c.position, _get_line(c))

\* A vertical motion and whether it is the select variant.
VerticalSteps == {MOTION_UP, MOTION_DOWN} \X BOOLEAN

vertical_step(c, st) ==
    IF st[2] THEN on_text_motion_select(c, st[1]) ELSE on_text_motion(c, st[1], FALSE)

\* The line a vertical motion goes to: the line itself for UP on the first
\* line and DOWN on the last.
TargetLine(c, motion) ==
    IF motion = MOTION_UP THEN Max(0, _get_line(c) - 1)
    ELSE Min(get_line_count(c.text) - 1, _get_line(c) + 1)

\* What C28 says of one step st of a run begun at x0, taken in c.
C28_Step(c, st, x0) ==
    LET d == vertical_step(c, st)
    IN /\ d.ideal_x \in {None, Some(x0)}
       /\ _get_line(d) = TargetLine(c, st[1])
       /\ d.position = get_position_on_line(c.text, TargetLine(c, st[1]), x0)

\* What C28 says of the run s1, s2, s3 begun in the current state.
C28_Run(s1, s2, s3) ==
    LET x0 == CaretX(State)
        d1 == vertical_step(State, s1)
        d2 == vertical_step(d1, s2)
    IN /\ C28_Step(State, s1, x0)
       /\ C28_Step(d1, s2, x0)
       /\ C28_Step(d2, s3, x0)

\* No run is under way: nothing is remembered, or the caret's own x is.
C28_RunStarts == ideal_x = None \/ ideal_x = Some(CaretX(State))

\* C28: across a run of UP/DOWN motions, plain or select in any mix, the
\* remembered ideal x stays the caret's x before the run, each step puts the
\* caret at the position of the target line closest to it, and UP on the
\* first line and DOWN on the last keep the line.
C28_IdealXAcrossAnyRun ==
    C28_RunStarts => \A s1, s2, s3 \in VerticalSteps : C28_Run(s1, s2, s3)

\* The same of the runs in which no select motion follows a plain one.
C28_IdealXAcrossUnmixedRuns ==
    C28_RunStarts =>
        \A s1, s2, s3 \in VerticalSteps :
            ~(~s1[2] /\ s2[2]) /\ ~(~s2[2] /\ s3[2]) => C28_Run(s1, s2, s3)

\* The indexes at which a word begins: a word character at the start of the
\* text or after a character that is none.
WordStarts(s) ==
    {j \in 0..(Len(s) - 1) : IsWord(s[j + 1]) /\ (j = 0 \/ ~IsWord(s[j]))}

\* Where C29 has NEXT_WORD go from p.
C29_Next(s, p) ==
    LET after == {j \in WordStarts(s) : j > p /\ j >= 1}
    IN IF after = {} THEN Len(s) ELSE CHOOSE j \in after : \A k \in after : j <= k

\* Where C29 has PREVIOUS_WORD go from p.
C29_Previous(s, p) ==
    LET before == {j \in WordStarts(s) : j < p}
    IN IF before = {} THEN 0
       ELSE LET last == CHOOSE j \in before : \A k \in before : k <= j
            IN IF last >= 1 THEN last ELSE 0

\* C29: NEXT_WORD goes to the first word start after the position that
\* follows a non-word character, or to the end of the text; PREVIOUS_WORD
\* goes to the start of the last word begun before the position, or to 0;
\* neither goes the wrong way and each moves unless at the end / the start.
C29_WordMotionsFindWordStarts ==
    \A select \in BOOLEAN :
        LET n == on_text_motion(State, MOTION_NEXT_WORD, select)
            p == on_text_motion(State, MOTION_PREVIOUS_WORD, select)
        IN /\ n.position = C29_Next(text, position)
           /\ p.position = C29_Previous(text, position)
           /\ n.position >= position
           /\ p.position <= position
           /\ position < Len(text) => n.position > position
           /\ position > 0 => p.position < position

\* NEXT_WORD has gone to a word start inside the text and, one character
\* further, PREVIOUS_WORD comes back to it.
C29_Witness ==
    LET n == on_text_motion(State, MOTION_NEXT_WORD, FALSE)
        r == on_text_motion(n, MOTION_RIGHT, FALSE)
        p == on_text_motion(r, MOTION_PREVIOUS_WORD, FALSE)
    IN /\ position < n.position
       /\ n.position < Len(text)
       /\ r.position = n.position + 1
       /\ p.position = n.position

\* The start of the word that has the character at index p.
WordStartAt(s, p) ==
    LET before == {j \in WordStarts(s) : j <= p}
    IN CHOOSE j \in before : \A k \in before : k <= j

\* The points of a double click whose character is a word character.
C30_WordPoints ==
    {pt \in Points : /\ PositionAt(text, pt) < Len(text)
                     /\ IsWord(text[PositionAt(text, pt) + 1])}

\* What C30 says of select_word at the point pt.
C30_Selects(pt) ==
    LET p == PositionAt(text, pt)
        d == select_word(State, pt[1], pt[2])
    IN /\ d.mark = Some(WordStartAt(text, p))
       /\ Val(d.mark) <= p
       /\ p < d.position
       /\ d.selection = <<Val(d.mark), d.position>>

\* C30: select_word at a position whose character is a word character sets
\* the mark to the start of the word containing it and the position beyond
\* it, so that the selection [mark, position) is not empty, for every
\* position inside a word, the word's first character included.
C30_SelectWordSelectsEnclosingWord == \A pt \in C30_WordPoints : C30_Selects(pt)

\* The same of the positions that are not at the first character of a word
\* that follows a non-word character.
C30_SelectWordInsideWord ==
    \A pt \in C30_WordPoints :
        LET p == PositionAt(text, pt)
        IN p = 0 \/ IsWord(text[p]) => C30_Selects(pt)

-----------------------------------------------------------------------------
(* Properties of typing, blinking and widths.                              *)

\* The texts one on_text call is given here: up to two typed characters.
C31_Typed == {<<>>} \cup {<<a>> : a \in Typed} \cup {<<a, b>> : a, b \in Typed}

\* t with a newline for every carriage return.
RECURSIVE C31_Newlines(_)
C31_Newlines(t) ==
    IF t = <<>> THEN <<>>
    ELSE <<IF Head(t) = "\r" THEN "\n" ELSE Head(t)>> \o C31_Newlines(Tail(t))

\* The start and the end of the current selection.
C31_Start == IF mark = None THEN position ELSE Min(position, Val(mark))

C31_End == IF mark = None THEN position ELSE Max(position, Val(mark))

\* C31: on_text(t) leaves the document old[:s] + t' + old[e:], [s, e) being
\* the selection (s = e = position without a mark) and t' being t with a
\* newline for every carriage return, the position s + len(t') and no mark.
C31_TypingReplacesSelection ==
    \A t \in C31_Typed :
        LET d == on_text(State, t)
            typed == C31_Newlines(t)
        IN /\ d.text = SubSeq(text, 1, C31_Start) \o typed
                           \o SubSeq(text, C31_End + 1, Len(text))
           /\ d.position = C31_Start + Len(typed)
           /\ d.mark = None

\* A selection that is not empty is there, and a carriage return typed over
\* it leaves a newline in its place.
C31_Witness ==
    /\ mark # None
    /\ C31_Start < C31_End
    /\ LET d == on_text(State, <<"\r">>)
       IN /\ d.text[C31_Start + 1] = "\n"
          /\ Len(d.text) = Len(text) - (C31_End - C31_Start) + 1

\* The other of the two alphas.
C32_Other(a) == IF a = OPAQUE THEN TRANSPARENT ELSE OPAQUE

\* A firing of the blink callback on a visible and active caret turns the
\* alpha into the other one.
C32_FiringAlternates == Blink /\ visible /\ active => alpha' = C32_Other(alpha)

\* A nudge on an active caret leaves it opaque, so that the first firing
\* after it makes it transparent.
C32_NudgeThenFiring ==
    OnText(MaxDoc) /\ active => /\ alpha' = OPAQUE
                                /\ _blink(State').alpha = TRANSPARENT

\* C32: while the caret stays visible and active and the blink timer fires
\* fairly, consecutive firings alternate the alpha between 255 and 0, the
\* first firing after a nudge giving 0, and the alpha is 255 infinitely
\* often and 0 infinitely often.
C32_BlinkAlternatesForever ==
    /\ [][C32_FiringAlternates /\ C32_NudgeThenFiring]_vars
    /\ <>[](visible /\ active) => /\ []<>(alpha = OPAQUE)
                                  /\ []<>(alpha = TRANSPARENT)

\* The callback has fired on a visible and active caret and hidden it.
C32_Witness ==
    /\ visible
    /\ active
    /\ scheduled = 1
    /\ ~blink_visible
    /\ alpha = TRANSPARENT

\* The slices C33 is about: 0 <= i < j <= len(text).
C33_Slices ==
    {sl \in (0..Len(glyph_string.text)) \X (0..Len(glyph_string.text)) : sl[1] < sl[2]}

\* get_subwidth(i, j) is the sum of the advances of the glyphs i .. j - 1.
C33_IsAdvanceSum(sl) ==
    get_subwidth(glyph_string, sl[1], sl[2]) = Return(AdvanceSum(sl[1], sl[2]))

\* get_subwidth(i, j) + get_subwidth(j, k) = get_subwidth(i, k)
C33_Additive ==
    \A a, b \in C33_Slices :
        a[2] = b[1] => SubWidth(a[1], a[2]) + SubWidth(b[1], b[2]) = SubWidth(a[1], b[2])

\* C33: whatever x the glyph string was constructed at, get_subwidth(i, j)
\* for 0 <= i < j <= len(text) is the sum of the advances of the glyphs
\* i .. j - 1, and get_subwidth(i, j) + get_subwidth(j, k) = get_subwidth(i, k).
C33_SubwidthIsAdvanceSum ==
    /\ \A sl \in C33_Slices : C33_IsAdvanceSum(sl)
    /\ C33_Additive

\* The same of the slices that do not start at 0, and of all slices of a
\* string constructed at x = 0.
C33_SubwidthPastStartOrAtZero ==
    /\ \A sl \in C33_Slices : sl[1] > 0 \/ origin = 0 => C33_IsAdvanceSum(sl)
    /\ C33_Additive

\* A caret that is visible and active is opaque.
C34_Solid(d) == d.visible /\ d.active => d.alpha = OPAQUE

\* C34: with PERIOD set to 0 a caret that is visible and active is opaque
\* after every interactive event and after every visible = True, however
\* many nudges went before.
C34_SolidWithoutBlinking ==
    period = 0 =>
        /\ \A ch \in Typed : C34_Solid(on_text(State, <<ch>>))
        /\ \A motion \in Motions :
             /\ C34_Solid(on_text_motion(State, motion, FALSE))
             /\ C34_Solid(on_text_motion_select(State, motion))
        /\ \A pt \in Points :
             /\ C34_Solid(on_mouse_press(State, pt[1], pt[2]))
             /\ C34_Solid(on_mouse_drag(State, pt[1], pt[2]))
        /\ C34_Solid(_set_visible(State, TRUE))

\* With PERIOD set to 0 the blink callback is never scheduled, and a nudge
\* of a visible and active caret turns its alpha into the other one.
C34_NudgeTogglesWithoutBlinking ==
    period = 0 =>
        /\ scheduled = 0
        /\ visible /\ active => _nudge(State).alpha = C32_Other(alpha)

\* The characters the working text can be broken after.
C35_Breakable == {" ", ZERO_WIDTH_SPACE, "\n"}

\* Line n has no character to break after before its last character.
C35_OnePiece(n) ==
    \A k \in (Lines[n][1] + 1)..(Lines[n][2] - 1) : Working[k] \notin C35_Breakable

\* Line n has no newline in it.
C35_NoNewline(n) ==
    \A k \in (Lines[n][1] + 1)..Lines[n][2] : Working[k] # "\n"

\* C35: laid out to a layout width W, every line of a Text is at most W
\* wide or is one unbreakable piece, and no line has a newline in it, even
\* after a word wider than W.
C35_LinesFitOrOnePiece ==
    LaidOut /\ block.layout_width # None =>
        \A n \in 1..Len(Lines) :
            /\ \/ LineAdvance(Lines[n][1], Lines[n][2]) <= Val(block.layout_width)
               \/ C35_OnePiece(n)
            /\ C35_NoNewline(n)

\* The same of the lines that end where a break was found: all but a last
\* line that runs to the end of the working text.
C35_BrokenLinesFit ==
    LaidOut /\ block.layout_width # None =>
        \A n \in 1..Len(Lines) :
            Lines[n][2] < Len(Working) =>
                /\ LineAdvance(Lines[n][1], Lines[n][2]) <= Val(block.layout_width)
                /\ C35_NoNewline(n)

====
